---- MODULE Spec2Model ----
(***************************************************************************)
(* State-machine model of the PERO dashboard component App() of            *)
(* src/unnamed/part_000 (the variant with authentication): the camera      *)
(* stream monitor, its timers and listeners, the control handlers and the  *)
(* joystick with its direction classifier.                                 *)
(*                                                                         *)
(* React is modelled as follows.  A handler (an event callback, a timer    *)
(* callback, the continuation of an awaited fetch) runs to completion and  *)
(* its setState calls are committed together.  An effect whose dependency  *)
(* list changed in that commit is then pending; it runs as the next step,  *)
(* before any other handler (every handler is guarded by EffectsFlushed).  *)
(* A callback created by an effect run keeps the values of the render it   *)
(* was created in: the captured lastGoodStreamUrl is the field lg of a     *)
(* probe, a timer or a listener.                                           *)
(***************************************************************************)
EXTENDS Integers, Sequences, FiniteSets, TLC

\* ---------------------------------------------------------------- bounds
\* Milliseconds the clock advances in one step (less when a timer is due sooner).
TickMs == 1000
\* The clock stops advancing here.
MaxTime == 6000
\* Probes (fetches) in flight at once.
MaxInFlight == 2
\* The clock stops advancing here when the controls are exercised too.
MaxTimeControls == 2000

\* ------------------------------------------------------- program constants
\* Largest coordinate, radius and scale factor of the classifier specification.
MaxCoord == 16
MaxRadius == 6
MaxScale == 3
\* Pixels a pointer moves between two move events, and how far from the
\* centre of the joystick it is followed.
MaxPointerStep == 1
MaxPointerOffset == 90
\* Database updates in flight at once.
MaxWritesInFlight == 1
\* Largest number held by the remote 'speed' key.
MaxRemoteSpeed == 4
\* Spacing of the offsets at which the pointer goes down when the joystick
\* is exercised together with the publisher.
PointerGrid == 20
\* Spacing of the offsets at which the joystick handlers are called directly.
CallGrid == 40

ProbeTimeoutMs == 3000
ProbeIntervalMs == 5000

null == "null"
AuthUser == "user"
Users == {null, AuthUser}

\* A URL is the empty string or `${streamSource}?timestamp=${t}`; only the
\* timestamp distinguishes two stream URLs (both stream sources are equal).
EmptyUrl == <<>>
TimestampedUrl(t) == <<t>>
\* JavaScript truthiness of a string.
Truthy(s) == s # EmptyUrl

VARIABLES
    now,                 \* Date.now(), ms
    user,                \* useState(null)
    loadingAuth,         \* useState(true)
    videoStreamError,    \* useState(false)
    cctvStream,          \* useState("")
    lastGoodStreamUrl,   \* useState("")
    inflight,            \* fetches awaited by testStreamConnection, in issue order
    refreshInterval,     \* registered setInterval timers: [lg, due]
    visibilityListeners, \* registered visibilitychange listeners: [lg]
    visibilityState,     \* document.visibilityState
    cameraDeps,          \* dependency values of the last run of the camera effect
    lastIssue,           \* history: when and by what the last probe of the session was issued
    lastApplied,         \* history: the operation that set the stream state last
    mode,                \* useState(CONTROL_MODE.ARROWS)
    currentDirection,    \* useState("CENTER")
    speed,               \* useState(1)
    sprayLeftActive,     \* useState(false)
    sprayRightActive,    \* useState(false)
    joystickPos,         \* useState({ x: 0, y: 0 })
    isDragging,          \* useState(false)
    effectDeps,          \* dependency values of the last run of the other effects
    writes,              \* update() calls of updateFirebase awaiting their outcome
    lastWrite,           \* history: the update issued last, if any
    lastSettled,         \* history: outcome of the update that settled last
    accelerometerData,   \* useState({ x: 'N/A', y: 'N/A', z: 'N/A' })
    ultrasonicDistance,  \* useState('N/A')
    motionStatus,        \* useState('N/A')
    gpsLocation,         \* useState({ latitude: 'N/A', ... })
    lastSnapshot,        \* history: the snapshot the root listener received last, if any
    gpsSource,           \* useState('NEO6')
    googleMarker,        \* googleMap.current / googleMarker.current: <<>> or <<position>>
    classifyArgs,        \* inputs of a classification (classifier specification only)
    classifyResult,      \* its results, once classified
    loginError,          \* useState('')
    loggingIn,           \* useState(false)
    signIn,              \* the signInWithEmailAndPassword promise handleLogin awaits
    authCurrentUser      \* the user the auth instance holds, once it has loaded

streamVars == <<videoStreamError, cctvStream, lastGoodStreamUrl>>
monitorVars == <<now, inflight, refreshInterval, visibilityListeners, visibilityState,
                 cameraDeps, lastIssue, lastApplied>>
authVars == <<user, loadingAuth>>
controlVars == <<mode, currentDirection, speed, sprayLeftActive, sprayRightActive>>
joystickVars == <<joystickPos, isDragging>>
publishVars == <<writes, lastWrite, lastSettled>>
sensorVars == <<accelerometerData, ultrasonicDistance, motionStatus, gpsLocation,
                lastSnapshot>>
mapVars == <<gpsSource, googleMarker>>
classifyVars == <<classifyArgs, classifyResult>>
loginVars == <<loginError, loggingIn, signIn, authCurrentUser>>
dataVars == <<effectDeps, publishVars, sensorVars, mapVars, classifyVars, loginVars>>
vars == <<authVars, streamVars, monitorVars, controlVars, joystickVars, dataVars>>

StreamState == [currentUrl |-> cctvStream, lastGoodUrl |-> lastGoodStreamUrl,
                hasError |-> videoStreamError]

\* Values of lastApplied: the kind of operation, the URL of a successful
\* probe, and whether videoStreamError was set when the operation ran.
Applied(kind, url) == [kind |-> kind, url |-> url, wasError |-> videoStreamError]
NoResult == [kind |-> "Reset", url |-> EmptyUrl, wasError |-> FALSE]

RemoveAt(s, i) == SubSeq(s, 1, i - 1) \o SubSeq(s, i + 1, Len(s))

\* Variant: a probe whose fetch is given no abort timer of 3 s.
testStreamConnection_NoAbort(lg, by) ==
    [url |-> TimestampedUrl(now), lg |-> lg, deadline |-> now + 2 * ProbeTimeoutMs,
     by |-> by]

\* The fetch started by one call of testStreamConnection from a callback that
\* captured lastGoodStreamUrl = lg; the abort timer is due ProbeTimeoutMs later.
testStreamConnection(lg, by) ==
    [url |-> TimestampedUrl(now), lg |-> lg, deadline |-> now + ProbeTimeoutMs, by |-> by]

NoIssue == [at |-> -1, by |-> "none"]
IssuedNow(by) == [at |-> now, by |-> by]

\* The dependency list [isMobile, lastGoodStreamUrl, user] of the camera effect
\* (isMobile never changes).
CameraDepsNow == [lg |-> lastGoodStreamUrl, user |-> user]
EffectsFlushed == cameraDeps = CameraDepsNow

\* The 'N/A' the sensor states hold when a value is not available.
NA == [kind |-> "N/A", v |-> 0]
NoGps == [latitude |-> NA, longitude |-> NA, geolat |-> NA, geolong |-> NA]

\* The state after the first render and its effects, which run with user null:
\* the publish effect writes nothing, the sensor effect sets every sensor state
\* to 'N/A', no map exists.
InitData ==
    /\ effectDeps = [publish |-> [dir |-> "CENTER", left |-> FALSE, right |-> FALSE,
                                  user |-> null],
                     sensor |-> null,
                     map |-> null,
                     marker |-> [gps |-> NoGps, source |-> "NEO6", user |-> null]]
    /\ writes = <<>>
    /\ lastWrite = <<>>
    /\ lastSettled = <<>>
    /\ accelerometerData = [x |-> NA, y |-> NA, z |-> NA]
    /\ ultrasonicDistance = NA
    /\ motionStatus = NA
    /\ gpsLocation = NoGps
    /\ lastSnapshot = <<>>
    /\ gpsSource = "NEO6"
    /\ googleMarker = <<>>
    /\ loginError = ""
    /\ loggingIn = FALSE
    /\ signIn = "none"
    /\ authCurrentUser = "unknown"

InitState ==
    /\ now = 0
    /\ user = null
    /\ loadingAuth = TRUE
    /\ videoStreamError = FALSE
    /\ cctvStream = EmptyUrl
    /\ lastGoodStreamUrl = EmptyUrl
    /\ inflight = <<>>
    /\ refreshInterval = {}
    /\ visibilityListeners = {}
    /\ visibilityState = "visible"
    /\ cameraDeps = [lg |-> EmptyUrl, user |-> null]
    /\ lastIssue = NoIssue
    /\ lastApplied = NoResult
    /\ mode = "ARROWS"
    /\ currentDirection = "CENTER"
    /\ speed = 1
    /\ sprayLeftActive = FALSE
    /\ sprayRightActive = FALSE
    /\ joystickPos = [x |-> 0, y |-> 0]
    /\ isDragging = FALSE
    /\ InitData

NoClassification ==
    /\ classifyArgs = <<>>
    /\ classifyResult = <<>>

Init == InitState /\ NoClassification

\* ------------------------------------------------------------ rendering
\* The main application is rendered only when authentication has loaded and
\* a user is logged in; otherwise the loading or the login page is.
MainAppShown == ~loadingAuth /\ user # null
\* Variant: the offline panel shown on every error, whatever lastGoodStreamUrl.
CameraSection_OfflineOnError ==
    IF ~MainAppShown THEN [panel |-> "none", src |-> EmptyUrl]
    ELSE IF videoStreamError THEN [panel |-> "offline", src |-> EmptyUrl]
    ELSE [panel |-> "iframe", src |-> cctvStream]

\* What the Camera Stream Section renders: the CAMERA OFFLINE panel with the
\* "Attempt Reconnect" button, or the iframe with src={cctvStream}; nothing
\* while the loading or the login page is shown.
CameraSection ==
    IF ~MainAppShown THEN [panel |-> "none", src |-> EmptyUrl]
    ELSE IF videoStreamError /\ ~Truthy(lastGoodStreamUrl)
            THEN [panel |-> "offline", src |-> EmptyUrl]
    ELSE [panel |-> "iframe", src |-> cctvStream]
\* videoStreamError && !lastGoodStreamUrl: the CAMERA OFFLINE panel with the
\* "Attempt Reconnect" button replaces the iframe.
OfflineShown == CameraSection.panel = "offline"
IframeShown == CameraSection.panel = "iframe"

\* ---------------------------------------------------------- authentication
\* onAuthStateChanged callback: setUser(currentUser); setLoadingAuth(false).
\* Firebase calls it once with the initial user and then on every change.
onAuthStateChanged(currentUser) ==
    /\ EffectsFlushed
    /\ currentUser # user \/ loadingAuth
    /\ currentUser # null => Len(inflight) < MaxInFlight
    /\ user' = currentUser
    /\ loadingAuth' = FALSE
    /\ UNCHANGED <<now, videoStreamError, cctvStream, lastGoodStreamUrl, inflight,
                   refreshInterval, visibilityListeners, visibilityState,
                   cameraDeps, lastIssue, lastApplied, controlVars, joystickVars, dataVars>>

\* The login page: authentication has loaded and no user is logged in.
LoginPageShown == ~loadingAuth /\ user = null

\* The auth instance finishes loading: it holds the persisted user, or none.
AuthInitialized(persisted) ==
    /\ authCurrentUser = "unknown"
    /\ authCurrentUser' = persisted
    /\ UNCHANGED <<authVars, streamVars, monitorVars, controlVars, joystickVars, effectDeps,
                   publishVars, sensorVars, mapVars, classifyVars, loginError, loggingIn,
                   signIn>>

\* The auth instance calls the listener with the user it holds, first once
\* loaded and then whenever that user has changed.
AuthStateNotified ==
    /\ authCurrentUser \in Users
    /\ onAuthStateChanged(authCurrentUser)

\* Variant: handleLogin without setLoginError('') at its start.
handleLogin_KeepsError ==
    /\ EffectsFlushed
    /\ LoginPageShown /\ ~loggingIn
    /\ loggingIn' = TRUE
    /\ signIn' = "pending"
    /\ UNCHANGED <<authVars, streamVars, monitorVars, controlVars, joystickVars, effectDeps,
                   publishVars, sensorVars, mapVars, classifyVars, loginError,
                   authCurrentUser>>

\* handleLogin up to its await, on submit of the login form: the form is on
\* the login page and its submit button is disabled while loggingIn.
\* setLoginError(''); setLoggingIn(true); signInWithEmailAndPassword(...).
handleLogin ==
    /\ EffectsFlushed
    /\ LoginPageShown /\ ~loggingIn
    /\ loginError' = ""
    /\ loggingIn' = TRUE
    /\ signIn' = "pending"
    /\ UNCHANGED <<authVars, streamVars, monitorVars, controlVars, joystickVars, effectDeps,
                   publishVars, sensorVars, mapVars, classifyVars, authCurrentUser>>

\* The credentials are accepted: the auth instance holds the user and the
\* promise is fulfilled.  The listener call and the rest of handleLogin
\* follow, in either order.
SignInAccepted ==
    /\ signIn = "pending"
    /\ signIn' = "fulfilled"
    /\ authCurrentUser' = AuthUser
    /\ UNCHANGED <<authVars, streamVars, monitorVars, controlVars, joystickVars, effectDeps,
                   publishVars, sensorVars, mapVars, classifyVars, loginError, loggingIn>>

\* handleLogin after its await returned: the try block ends, finally runs
\* setLoggingIn(false).
handleLogin_Fulfilled ==
    /\ EffectsFlushed
    /\ signIn = "fulfilled"
    /\ loggingIn' = FALSE
    /\ signIn' = "none"
    /\ UNCHANGED <<authVars, streamVars, monitorVars, controlVars, joystickVars, effectDeps,
                   publishVars, sensorVars, mapVars, classifyVars, loginError,
                   authCurrentUser>>

\* The values of err.code the sign-in is rejected with; "undefined" is an
\* error without a code.
ErrorCodes ==
    {"auth/invalid-credential", "auth/user-not-found", "auth/wrong-password",
     "auth/invalid-email", "auth/too-many-requests", "auth/network-request-failed",
     "undefined"}

\* The switch (err.code) of the catch block.
LoginErrorMessage(code) ==
    CASE code \in {"auth/invalid-credential", "auth/user-not-found", "auth/wrong-password"}
           -> "Invalid email or password. Please try again."
      [] code = "auth/invalid-email"
           -> "Please enter a valid email address."
      [] code = "auth/too-many-requests"
           -> "Access to this account has been temporarily disabled due to many failed login attempts. Please try again later."
      [] OTHER
           -> "Failed to login. Please check your credentials."

\* handleLogin after its await threw err with err.code = code: the catch
\* block sets the message, finally runs setLoggingIn(false).
handleLogin_Rejected(code) ==
    /\ EffectsFlushed
    /\ signIn = "pending"
    /\ loginError' = LoginErrorMessage(code)
    /\ loggingIn' = FALSE
    /\ signIn' = "none"
    /\ UNCHANGED <<authVars, streamVars, monitorVars, controlVars, joystickVars, effectDeps,
                   publishVars, sensorVars, mapVars, classifyVars, authCurrentUser>>

\* handleLogout, the Logout button of the main application, with signOut
\* resolving: the auth instance holds no user.  (When signOut throws the
\* error is logged and nothing changes.)
handleLogout ==
    /\ EffectsFlushed
    /\ MainAppShown
    /\ authCurrentUser' = null
    /\ UNCHANGED <<authVars, streamVars, monitorVars, controlVars, joystickVars, effectDeps,
                   publishVars, sensorVars, mapVars, classifyVars, loginError, loggingIn,
                   signIn>>

\* ------------------------------------------------------------ the monitor
\* Variant: the try branch without setVideoStreamError(false).
ProbeSuccessState_KeepsError(p) ==
    [currentUrl |-> p.url, lastGoodUrl |-> p.url, hasError |-> videoStreamError]

\* The stream state the try branch of testStreamConnection sets when the
\* fetch of probe p resolves.
ProbeSuccessState(p) ==
    [currentUrl |-> p.url, lastGoodUrl |-> p.url, hasError |-> FALSE]

\* Variant: a rejected fetch that sets no state (the error is not caught).
ProbeFailureState_Uncaught(p) == StreamState

\* The stream state the catch branch of testStreamConnection sets when the
\* fetch of probe p rejects or is aborted: lastGoodStreamUrl is the value the
\* callback captured (p.lg), and setLastGoodStreamUrl is not called.
ProbeFailureState(p) ==
    [currentUrl |-> IF Truthy(p.lg) THEN p.lg ELSE EmptyUrl,
     lastGoodUrl |-> lastGoodStreamUrl,
     hasError |-> TRUE]

\* The three setState calls of the `if (!user)` branch of the camera effect.
SessionResetState ==
    [currentUrl |-> EmptyUrl, lastGoodUrl |-> EmptyUrl, hasError |-> FALSE]

\* Variant: a cleanup that does not clear the interval timer.
clearInterval_Leak(timers, lg) == timers

\* What is left registered after the cleanup function of the previous effect
\* run: clearInterval(refreshInterval) and removeEventListener of the handler
\* that run created (the one that captured lg).
clearInterval(timers, lg) == {t \in timers : t.lg # lg}
removeEventListener(listeners, lg) == {l \in listeners : l.lg # lg}

\* setInterval(testStreamConnection, 5000) by an effect run that captured lg.
setInterval(lg) == [lg |-> lg, due |-> now + ProbeIntervalMs]
\* The next firing of an interval timer that has just fired.
Rearm(t) == [t EXCEPT !.due = @ + ProbeIntervalMs]

SetStreamState(s) ==
    /\ cctvStream' = s.currentUrl
    /\ lastGoodStreamUrl' = s.lastGoodUrl
    /\ videoStreamError' = s.hasError

\* Variant: an effect body without the initial call of testStreamConnection.
CameraStreamEffect_NoInitialProbe ==
    /\ ~EffectsFlushed
    /\ LET hadCleanup == cameraDeps.user # null
           timers == IF hadCleanup THEN clearInterval(refreshInterval, cameraDeps.lg)
                                   ELSE refreshInterval
           listeners == IF hadCleanup
                           THEN removeEventListener(visibilityListeners, cameraDeps.lg)
                           ELSE visibilityListeners
       IN IF user = null
             THEN /\ SetStreamState(SessionResetState)
                  /\ refreshInterval' = timers
                  /\ visibilityListeners' = listeners
                  /\ lastIssue' = NoIssue
                  /\ lastApplied' = NoResult
                  /\ UNCHANGED inflight
             ELSE /\ UNCHANGED <<inflight, lastIssue>>
                  /\ refreshInterval' = timers \cup {setInterval(lastGoodStreamUrl)}
                  /\ visibilityListeners' = listeners \cup {[lg |-> lastGoodStreamUrl]}
                  /\ UNCHANGED <<videoStreamError, cctvStream, lastGoodStreamUrl, lastApplied>>
    /\ cameraDeps' = CameraDepsNow
    /\ UNCHANGED <<now, user, loadingAuth, visibilityState, controlVars, joystickVars, dataVars>>

\* The camera stream effect, run because [isMobile, lastGoodStreamUrl, user]
\* changed: first the cleanup the previous run returned (a run with user null
\* returns none), then the body.
CameraStreamEffect ==
    /\ ~EffectsFlushed
    /\ LET hadCleanup == cameraDeps.user # null
           timers == IF hadCleanup THEN clearInterval(refreshInterval, cameraDeps.lg)
                                   ELSE refreshInterval
           listeners == IF hadCleanup
                           THEN removeEventListener(visibilityListeners, cameraDeps.lg)
                           ELSE visibilityListeners
       IN IF user = null
             THEN /\ SetStreamState(SessionResetState)
                  /\ refreshInterval' = timers
                  /\ visibilityListeners' = listeners
                  /\ lastIssue' = NoIssue
                  /\ lastApplied' = NoResult
                  /\ UNCHANGED inflight
             ELSE /\ inflight' = Append(inflight, testStreamConnection(lastGoodStreamUrl, "effect"))
                  /\ lastIssue' = IssuedNow("effect")
                  /\ refreshInterval' = timers \cup {setInterval(lastGoodStreamUrl)}
                  /\ visibilityListeners' = listeners \cup {[lg |-> lastGoodStreamUrl]}
                  /\ UNCHANGED <<videoStreamError, cctvStream, lastGoodStreamUrl, lastApplied>>
    /\ cameraDeps' = CameraDepsNow
    /\ UNCHANGED <<now, user, loadingAuth, visibilityState, controlVars, joystickVars, dataVars>>

\* The interval timer t is due: its callback testStreamConnection runs.
IntervalFires(t) ==
    /\ EffectsFlushed
    /\ t.due <= now
    /\ Len(inflight) < MaxInFlight
    /\ inflight' = Append(inflight, testStreamConnection(t.lg, "interval"))
    /\ lastIssue' = IssuedNow("interval")
    /\ refreshInterval' = (refreshInterval \ {t}) \cup {Rearm(t)}
    /\ UNCHANGED <<now, user, loadingAuth, videoStreamError, cctvStream,
                   lastGoodStreamUrl, visibilityListeners, visibilityState,
                   cameraDeps, lastApplied, controlVars, joystickVars, dataVars>>

\* Variant: a handler that probes on every visibilitychange event.
RECURSIVE handleVisibilityChange_Always(_, _)
handleVisibilityChange_Always(listeners, v) ==
    IF listeners = {} THEN <<>>
    ELSE LET l == CHOOSE x \in listeners : TRUE
         IN <<testStreamConnection(l.lg, "visibility")>>
            \o handleVisibilityChange_Always(listeners \ {l}, v)

\* The probes the registered visibilitychange handlers issue when the document
\* becomes v: one each when v is 'visible', none otherwise.
RECURSIVE handleVisibilityChange(_, _)
handleVisibilityChange(listeners, v) ==
    IF listeners = {} \/ v # "visible" THEN <<>>
    ELSE LET l == CHOOSE x \in listeners : TRUE
         IN <<testStreamConnection(l.lg, "visibility")>>
            \o handleVisibilityChange(listeners \ {l}, v)

\* The document's visibilityState changes to v and 'visibilitychange' is
\* dispatched to the registered listeners.
VisibilityChange(v) ==
    /\ EffectsFlushed
    /\ v # visibilityState
    /\ visibilityState' = v
    /\ LET issued == handleVisibilityChange(visibilityListeners, v)
       IN /\ Len(inflight) + Len(issued) <= MaxInFlight
          /\ inflight' = inflight \o issued
          /\ lastIssue' = IF issued = <<>> THEN lastIssue
                          ELSE IssuedNow("visibility")
    /\ UNCHANGED <<now, user, loadingAuth, videoStreamError, cctvStream,
                   lastGoodStreamUrl, refreshInterval, visibilityListeners,
                   cameraDeps, lastApplied, controlVars, joystickVars, dataVars>>

\* The fetch of the i-th probe in flight resolves before its abort timer
\* fires: the rest of the try block of testStreamConnection runs.  A response
\* takes a network round trip, so the clock has advanced since the request.
ProbeSucceeds(i) ==
    /\ EffectsFlushed
    /\ inflight[i].deadline - ProbeTimeoutMs < now
    /\ now < inflight[i].deadline
    /\ SetStreamState(ProbeSuccessState(inflight[i]))
    /\ inflight' = RemoveAt(inflight, i)
    /\ lastApplied' = Applied("Success", inflight[i].url)
    /\ UNCHANGED <<now, user, loadingAuth, refreshInterval, visibilityListeners,
                   visibilityState, cameraDeps, lastIssue, controlVars, joystickVars, dataVars>>

\* The fetch of the i-th probe in flight rejects (a transport error at any
\* time, or the abort when its 3 s timer fires): the catch block runs.
ProbeFails(i) ==
    /\ EffectsFlushed
    /\ now <= inflight[i].deadline
    /\ SetStreamState(ProbeFailureState(inflight[i]))
    /\ inflight' = RemoveAt(inflight, i)
    /\ lastApplied' = Applied("Failure", EmptyUrl)
    /\ UNCHANGED <<now, user, loadingAuth, refreshInterval, visibilityListeners,
                   visibilityState, cameraDeps, lastIssue, controlVars, joystickVars, dataVars>>

\* Variant: a manual reconnect that clears the error and loads nothing.
ManualReconnectState_NoUrl ==
    [currentUrl |-> cctvStream, lastGoodUrl |-> lastGoodStreamUrl, hasError |-> FALSE]

\* Variant: a manual reconnect that records its unprobed URL as the last good one.
ManualReconnectState_MarksGood ==
    [currentUrl |-> TimestampedUrl(now), lastGoodUrl |-> TimestampedUrl(now),
     hasError |-> FALSE]

\* The stream state handleManualReconnect sets.
ManualReconnectState ==
    [currentUrl |-> TimestampedUrl(now), lastGoodUrl |-> lastGoodStreamUrl,
     hasError |-> FALSE]

\* Click on "Attempt Reconnect" (rendered only in the offline panel).
handleManualReconnect ==
    /\ EffectsFlushed
    /\ OfflineShown
    /\ IF user = null
          THEN UNCHANGED <<videoStreamError, cctvStream, lastGoodStreamUrl, lastApplied>>
          ELSE /\ SetStreamState(ManualReconnectState)
               /\ lastApplied' = Applied("Reconnect", EmptyUrl)
    /\ UNCHANGED <<now, user, loadingAuth, inflight, refreshInterval,
                   visibilityListeners, visibilityState, cameraDeps, lastIssue, controlVars, joystickVars, dataVars>>

\* Variant: an onError handler that sets the error flag and leaves the URL.
IframeErrorState_KeepsUrl ==
    [currentUrl |-> cctvStream, lastGoodUrl |-> lastGoodStreamUrl, hasError |-> TRUE]

\* The stream state the iframe's onError handler sets.
IframeErrorState ==
    [currentUrl |-> IF cctvStream # lastGoodStreamUrl /\ Truthy(lastGoodStreamUrl)
                       THEN lastGoodStreamUrl
                       ELSE IF ~Truthy(lastGoodStreamUrl) THEN EmptyUrl
                       ELSE cctvStream,
     lastGoodUrl |-> lastGoodStreamUrl,
     hasError |-> TRUE]

\* The iframe (rendered unless the offline panel is) reports an error.
iframeOnError ==
    /\ EffectsFlushed
    /\ IframeShown
    /\ SetStreamState(IframeErrorState)
    /\ lastApplied' = Applied("RenderError", EmptyUrl)
    /\ UNCHANGED <<now, user, loadingAuth, inflight, refreshInterval,
                   visibilityListeners, visibilityState, cameraDeps, lastIssue, controlVars, joystickVars, dataVars>>

\* --------------------------------------------------------------- controls
Directions == {"UP", "DOWN", "LEFTY", "RIGHTY"}
SprayTypes == {"left", "right"}

\* mousedown / touchstart on a direction button (ARROWS mode only).
handleDirectionPress(direction) ==
    /\ EffectsFlushed
    /\ MainAppShown /\ mode = "ARROWS"
    /\ IF user = null THEN UNCHANGED currentDirection
                      ELSE currentDirection' = direction
    /\ UNCHANGED <<authVars, streamVars, monitorVars, dataVars, joystickVars, mode, speed,
                   sprayLeftActive, sprayRightActive>>

\* mouseup / touchend on a direction button.
handleDirectionRelease ==
    /\ EffectsFlushed
    /\ MainAppShown /\ mode = "ARROWS"
    /\ IF user = null THEN UNCHANGED currentDirection
                      ELSE currentDirection' = "CENTER"
    /\ UNCHANGED <<authVars, streamVars, monitorVars, dataVars, joystickVars, mode, speed,
                   sprayLeftActive, sprayRightActive>>

\* mousedown / touchstart on a spray button.
handleSprayPress(sprayType) ==
    /\ EffectsFlushed
    /\ MainAppShown
    /\ IF user = null THEN UNCHANGED <<sprayLeftActive, sprayRightActive>>
       ELSE IF sprayType = "left"
               THEN sprayLeftActive' = TRUE /\ UNCHANGED sprayRightActive
               ELSE sprayRightActive' = TRUE /\ UNCHANGED sprayLeftActive
    /\ UNCHANGED <<authVars, streamVars, monitorVars, dataVars, joystickVars, mode, speed, currentDirection>>

\* mouseup / touchend on a spray button.
handleSprayRelease(sprayType) ==
    /\ EffectsFlushed
    /\ MainAppShown
    /\ IF user = null THEN UNCHANGED <<sprayLeftActive, sprayRightActive>>
       ELSE IF sprayType = "left"
               THEN sprayLeftActive' = FALSE /\ UNCHANGED sprayRightActive
               ELSE sprayRightActive' = FALSE /\ UNCHANGED sprayLeftActive
    /\ UNCHANGED <<authVars, streamVars, monitorVars, dataVars, joystickVars, mode, speed, currentDirection>>

\* Click on the speed button: newSpeed = (speed % 3) + 1.
toggleSpeed ==
    /\ EffectsFlushed
    /\ MainAppShown
    /\ IF user = null THEN UNCHANGED speed
                      ELSE speed' = (speed % 3) + 1
    /\ UNCHANGED <<authVars, streamVars, monitorVars, dataVars, joystickVars, mode, currentDirection,
                   sprayLeftActive, sprayRightActive>>

\* Variant: the mode switch leaves the spray flags as they are.
toggleControlMode_KeepsSprays ==
    /\ EffectsFlushed
    /\ MainAppShown
    /\ IF user = null
          THEN UNCHANGED <<mode, currentDirection, sprayLeftActive, sprayRightActive>>
          ELSE /\ mode' = IF mode = "ARROWS" THEN "JOYSTICK" ELSE "ARROWS"
               /\ currentDirection' = "CENTER"
               /\ UNCHANGED <<sprayLeftActive, sprayRightActive>>
    /\ UNCHANGED <<authVars, streamVars, monitorVars, dataVars, joystickVars, speed>>

\* Click on the mode switch.
toggleControlMode ==
    /\ EffectsFlushed
    /\ MainAppShown
    /\ IF user = null
          THEN UNCHANGED <<mode, currentDirection, sprayLeftActive, sprayRightActive>>
          ELSE /\ mode' = IF mode = "ARROWS" THEN "JOYSTICK" ELSE "ARROWS"
               /\ currentDirection' = "CENTER"
               /\ sprayLeftActive' = FALSE
               /\ sprayRightActive' = FALSE
    /\ UNCHANGED <<authVars, streamVars, monitorVars, dataVars, joystickVars, speed>>

ControlAction ==
    \/ \E d \in Directions : handleDirectionPress(d)
    \/ handleDirectionRelease
    \/ \E t \in SprayTypes : handleSprayPress(t)
    \/ \E t \in SprayTypes : handleSprayRelease(t)
    \/ toggleSpeed
    \/ toggleControlMode

\* --------------------------------------------------------------- joystick
joystickRadius == 70
deadZoneRadius == 20
\* axisPriorityThreshold = 0.5, as a fraction.
axisPriorityThreshold == [num |-> 1, den |-> 2]
\* Half the side of the joystick container (w-40 h-40 rounded-full: a disc of
\* 160 px), on which mousedown and touchstart are received.
joystickContainerRadius == 80

\* Math.abs
Abs(n) == IF n < 0 THEN -n ELSE n

\* Variant: a classifier without the dead-zone test.
getDominantDirection_NoDeadZone(x, y) ==
    LET distSquared == x * x + y * y
        absNormalizedX == Abs(x)
        absNormalizedY == Abs(y)
    IN IF absNormalizedX * axisPriorityThreshold.den
                 > absNormalizedY * axisPriorityThreshold.num
               THEN (IF x > 0 THEN "RIGHTY" ELSE "LEFTY")
       ELSE IF y > 0 THEN "DOWN" ELSE "UP"

\* Variant: a classifier with RIGHTY and LEFTY exchanged.
getDominantDirection_Mirrored(x, y) ==
    LET distSquared == x * x + y * y
        absNormalizedX == Abs(x)
        absNormalizedY == Abs(y)
    IN IF distSquared < deadZoneRadius * deadZoneRadius THEN "CENTER"
       ELSE IF absNormalizedX * axisPriorityThreshold.den
                 > absNormalizedY * axisPriorityThreshold.num
               THEN (IF x > 0 THEN "LEFTY" ELSE "RIGHTY")
       ELSE IF y > 0 THEN "DOWN" ELSE "UP"

\* Variant: a classifier whose axis test is >= instead of >.
getDominantDirection_TieHorizontal(x, y) ==
    LET distSquared == x * x + y * y
        absNormalizedX == Abs(x)
        absNormalizedY == Abs(y)
    IN IF distSquared < deadZoneRadius * deadZoneRadius THEN "CENTER"
       ELSE IF absNormalizedX * axisPriorityThreshold.den
                 >= absNormalizedY * axisPriorityThreshold.num
               THEN (IF x > 0 THEN "RIGHTY" ELSE "LEFTY")
       ELSE IF y > 0 THEN "DOWN" ELSE "UP"

\* Variant: a classifier with DOWN and UP exchanged.
getDominantDirection_Flipped(x, y) ==
    LET distSquared == x * x + y * y
        absNormalizedX == Abs(x)
        absNormalizedY == Abs(y)
    IN IF distSquared < deadZoneRadius * deadZoneRadius THEN "CENTER"
       ELSE IF absNormalizedX * axisPriorityThreshold.den
                 > absNormalizedY * axisPriorityThreshold.num
               THEN (IF x > 0 THEN "RIGHTY" ELSE "LEFTY")
       ELSE IF y > 0 THEN "UP" ELSE "DOWN"

\* Variant: the axis with the larger magnitude wins, without the priority
\* given to the horizontal axis.
getDominantDirection_LargerAxis(x, y) ==
    IF x * x + y * y < deadZoneRadius * deadZoneRadius THEN "CENTER"
    ELSE IF Abs(x) > Abs(y) THEN (IF x > 0 THEN "RIGHTY" ELSE "LEFTY")
    ELSE IF y > 0 THEN "DOWN" ELSE "UP"

\* Variant: no command for the offset (0,0), where no direction dominates.
getDominantDirection_UndefinedAtCentre(x, y) ==
    IF x = 0 /\ y = 0 THEN "NONE"
    ELSE IF x * x + y * y < deadZoneRadius * deadZoneRadius THEN "CENTER"
    ELSE IF Abs(x) * axisPriorityThreshold.den > Abs(y) * axisPriorityThreshold.num
            THEN (IF x > 0 THEN "RIGHTY" ELSE "LEFTY")
    ELSE IF y > 0 THEN "DOWN" ELSE "UP"

\* getDominantDirection(x, y) for integer offsets in pixels.  The code divides
\* both coordinates by joystickRadius and compares in double precision; here
\* the same comparisons are made on integers, both sides multiplied by the
\* positive denominators:
\*   distFromCenter < deadZoneRadius / joystickRadius
\*       <=>  x*x + y*y < deadZoneRadius * deadZoneRadius
\*   absNormalizedX > absNormalizedY * axisPriorityThreshold
\*       <=>  |x| * den > |y| * num
\* For integer offsets the double-precision results are the same, ties
\* included: Math.sqrt gives exactly 20/70 for the offsets at distance 20,
\* and halving a double is exact.
getDominantDirection(x, y) ==
    LET distSquared == x * x + y * y
        absNormalizedX == Abs(x)
        absNormalizedY == Abs(y)
    IN IF distSquared < deadZoneRadius * deadZoneRadius THEN "CENTER"
       ELSE IF absNormalizedX * axisPriorityThreshold.den
                 > absNormalizedY * axisPriorityThreshold.num
               THEN (IF x > 0 THEN "RIGHTY" ELSE "LEFTY")
       ELSE IF y > 0 THEN "DOWN" ELSE "UP"

\* Variant: a dead-zone test that compares the normalised distance with
\* deadZone itself instead of deadZone / radius.
getDominantDirectionFor_AbsoluteDeadZone(radius, deadZone, axisPriority, x, y) ==
    LET distSquared == x * x + y * y
    IN IF distSquared < (deadZone * deadZone) * (radius * radius) THEN "CENTER"
       ELSE IF Abs(x) * axisPriority.den * radius > Abs(y) * axisPriority.num * radius
               THEN (IF x > 0 THEN "RIGHTY" ELSE "LEFTY")
       ELSE IF y > 0 THEN "DOWN" ELSE "UP"

\* The body of getDominantDirection with the three constants it closes over
\* (its dependency list) as parameters, radius > 0.  The normalised values
\* are fractions with denominator radius; each comparison is made on the
\* numerators after cross-multiplication:
\*   normalizedX^2 + normalizedY^2 = distSquared / radius^2
\*   (deadZone / radius)^2         = deadZone^2 / radius^2
getDominantDirectionFor(radius, deadZone, axisPriority, x, y) ==
    LET distSquared == x * x + y * y
    IN IF distSquared * (radius * radius) < (deadZone * deadZone) * (radius * radius)
          THEN "CENTER"
       ELSE IF Abs(x) * axisPriority.den * radius > Abs(y) * axisPriority.num * radius
               THEN (IF x > 0 THEN "RIGHTY" ELSE "LEFTY")
       ELSE IF y > 0 THEN "DOWN" ELSE "UP"

\* Inputs of the classifier specification: offsets, radii with a smaller dead
\* zone (the program's 70 and 20 among them), axis priorities, scale factors.
ClassifyInputs ==
    {a \in [x : -MaxCoord..MaxCoord, y : -MaxCoord..MaxCoord,
            radius : (1..MaxRadius) \cup {joystickRadius},
            deadZone : (0..(MaxRadius - 1)) \cup {deadZoneRadius},
            axisPriority : {axisPriorityThreshold, [num |-> 1, den |-> 1]},
            k : 1..MaxScale] :
        a.deadZone < a.radius}

\* The classifier is applied to the inputs and to the inputs scaled by k.
Classify ==
    /\ classifyArgs # <<>> /\ classifyResult = <<>>
    /\ LET a == classifyArgs[1]
       IN classifyResult' =
            <<[plain |-> getDominantDirectionFor(a.radius, a.deadZone, a.axisPriority,
                                                 a.x, a.y),
               scaled |-> getDominantDirectionFor(a.k * a.radius, a.k * a.deadZone,
                                                  a.axisPriority, a.k * a.x, a.k * a.y)]>>
    /\ UNCHANGED <<authVars, streamVars, monitorVars, controlVars, joystickVars,
                   effectDeps, publishVars, sensorVars, mapVars, classifyArgs, loginVars>>

\* Offsets of a pointer from the centre of the joystick container at
\* mousedown / touchstart: whole pixels inside the container's disc.
PointerOffsets ==
    {p \in (-joystickContainerRadius..joystickContainerRadius)
              \X (-joystickContainerRadius..joystickContainerRadius) :
        p[1] * p[1] + p[2] * p[2] <= joystickContainerRadius * joystickContainerRadius}

\* The offsets of the container on a grid of spacing PointerGrid.
GridOffsets == {q \in PointerOffsets : q[1] % PointerGrid = 0 /\ q[2] % PointerGrid = 0}

\* The offsets of the container on the coarser grid of spacing CallGrid.
CallOffsets ==
    LET steps == {k \in -joystickContainerRadius..joystickContainerRadius : k % CallGrid = 0}
    IN  {q \in steps \X steps :
           q[1] * q[1] + q[2] * q[2] <= joystickContainerRadius * joystickContainerRadius}

\* The joystick is rendered in JOYSTICK mode only.
JoystickShown == MainAppShown /\ mode = "JOYSTICK"
\* The window listeners for mouseup / touchend (and the move events) are
\* attached by the joystick effect while isDragging in JOYSTICK mode with a user.
JoystickListening == mode = "JOYSTICK" /\ user # null /\ isDragging

\* mousedown / touchstart on the joystick container at offset (newX, newY)
\* from its centre; a pointer goes down only while it is up.
handleJoystickStart(newX, newY) ==
    /\ EffectsFlushed
    /\ JoystickShown
    /\ ~isDragging
    /\ IF user = null
          THEN UNCHANGED <<isDragging, joystickPos, currentDirection>>
          ELSE /\ isDragging' = TRUE
               /\ joystickPos' = [x |-> newX, y |-> newY]
               /\ currentDirection' = getDominantDirection(newX, newY)
    /\ UNCHANGED <<authVars, streamVars, monitorVars, dataVars, mode, speed,
                   sprayLeftActive, sprayRightActive>>

\* A pointer goes down somewhere on the joystick container.
JoystickPointerDown ==
    /\ JoystickShown /\ ~isDragging
    /\ \E p \in PointerOffsets : handleJoystickStart(p[1], p[2])

\* Variant: the classifier on x / sqrt(rad), y / sqrt(rad) with everything
\* up to and including the joystick radius taken as the dead zone.
getDominantDirectionOver_CenterWithinRadius(x, y, rad) ==
    IF x * x + y * y <= joystickRadius * joystickRadius * rad THEN "CENTER"
    ELSE IF Abs(x) * axisPriorityThreshold.den > Abs(y) * axisPriorityThreshold.num
            THEN (IF x > 0 THEN "RIGHTY" ELSE "LEFTY")
    ELSE IF y > 0 THEN "DOWN" ELSE "UP"

\* The classifier on an offset whose coordinates are x / sqrt(rad) and
\* y / sqrt(rad), rad >= 1 (rad = 1: whole pixels).  The division by the
\* common positive sqrt(rad) and by joystickRadius is carried out by
\* cross-multiplication:
\*   distSquared = (x^2 + y^2) / (rad * joystickRadius^2)
\*   distSquared < (deadZoneRadius / joystickRadius)^2
\*     iff  x^2 + y^2 < deadZoneRadius^2 * rad
getDominantDirectionOver(x, y, rad) ==
    LET sumOfSquares == x * x + y * y
        absNormalizedX == Abs(x)
        absNormalizedY == Abs(y)
    IN IF sumOfSquares < deadZoneRadius * deadZoneRadius * rad THEN "CENTER"
       ELSE IF absNormalizedX * axisPriorityThreshold.den > absNormalizedY * axisPriorityThreshold.num
               THEN (IF x > 0 THEN "RIGHTY" ELSE "LEFTY")
       ELSE IF y > 0 THEN "DOWN" ELSE "UP"

\* The knob position handleJoystickMove computes from the pointer offset
\* (newX, newY): with distance = sqrt(newX^2 + newY^2) > joystickRadius the
\* offset becomes (newX / distance) * joystickRadius in both coordinates, held
\* here as the numerators newX * joystickRadius, newY * joystickRadius over
\* sqrt(rad) with rad = distance^2; otherwise the offset is kept (rad = 1).
clampToRadius(newX, newY) ==
    LET distanceSquared == newX * newX + newY * newY
    IN IF distanceSquared > joystickRadius * joystickRadius
          THEN [x |-> newX * joystickRadius, y |-> newY * joystickRadius,
                rad |-> distanceSquared]
          ELSE [x |-> newX, y |-> newY, rad |-> 1]

\* The older component of src/src/App.js (second half of the file), with
\* the same joystickRadius 70, deadZoneRadius 20 and axisPriorityThreshold
\* 0.5.  Which return statement of its getDominantDirection is taken for the
\* offset x / sqrt(rad), y / sqrt(rad): the dead-zone return, the return of
\* the first test, the return of the else-if test, or the final return.
AppJsOlder_returnTaken(x, y, rad) ==
    LET sumOfSquares == x * x + y * y
        absNormalizedX == Abs(x)
        absNormalizedY == Abs(y)
    IN IF sumOfSquares < deadZoneRadius * deadZoneRadius * rad THEN "deadZone"
       ELSE IF absNormalizedX * axisPriorityThreshold.den > absNormalizedY * axisPriorityThreshold.num
               THEN "horizontal"
       ELSE IF absNormalizedY * axisPriorityThreshold.den > absNormalizedX * axisPriorityThreshold.num
               THEN "vertical"
       ELSE "final"

\* Variant: the else-if test with the priority on the other side,
\* absNormalizedY * axisPriorityThreshold > absNormalizedX.
AppJsOlder_getDominantDirectionOver_PriorityOnY(x, y, rad) ==
    LET sumOfSquares == x * x + y * y
        absNormalizedX == Abs(x)
        absNormalizedY == Abs(y)
    IN IF sumOfSquares < deadZoneRadius * deadZoneRadius * rad THEN "CENTER"
       ELSE IF absNormalizedX * axisPriorityThreshold.den > absNormalizedY * axisPriorityThreshold.num
               THEN (IF x > 0 THEN "RIGHTY" ELSE "LEFTY")
       ELSE IF absNormalizedY * axisPriorityThreshold.num > absNormalizedX * axisPriorityThreshold.den
               THEN (IF y > 0 THEN "DOWN" ELSE "UP")
       ELSE "CENTER"

\* The older three-branch getDominantDirection on the offset x / sqrt(rad),
\* y / sqrt(rad), the comparisons cross-multiplied as in
\* getDominantDirectionOver:
\*   absNormalizedY > absNormalizedX * axisPriorityThreshold
\*       <=>  |y| * den > |x| * num
AppJsOlder_getDominantDirectionOver(x, y, rad) ==
    LET sumOfSquares == x * x + y * y
        absNormalizedX == Abs(x)
        absNormalizedY == Abs(y)
    IN IF sumOfSquares < deadZoneRadius * deadZoneRadius * rad THEN "CENTER"
       ELSE IF absNormalizedX * axisPriorityThreshold.den > absNormalizedY * axisPriorityThreshold.num
               THEN (IF x > 0 THEN "RIGHTY" ELSE "LEFTY")
       ELSE IF absNormalizedY * axisPriorityThreshold.den > absNormalizedX * axisPriorityThreshold.num
               THEN (IF y > 0 THEN "DOWN" ELSE "UP")
       ELSE "CENTER"

\* The offsets both classifiers are called with: the pointer offsets in whole
\* pixels as handleJoystickStart passes them, and the same offsets as
\* handleJoystickMove passes them, brought back to joystickRadius.
ClassifierOffsets ==
    LET pixels == (-MaxPointerOffset..MaxPointerOffset) \X (-MaxPointerOffset..MaxPointerOffset)
    IN {[x |-> p[1], y |-> p[2], rad |-> 1] : p \in pixels}
         \cup {clampToRadius(p[1], p[2]) : p \in pixels}

\* Both classifiers are applied to the offset.
ClassifyBoth ==
    /\ classifyArgs # <<>> /\ classifyResult = <<>>
    /\ LET a == classifyArgs[1]
       IN classifyResult' =
            <<[older |-> AppJsOlder_getDominantDirectionOver(a.x, a.y, a.rad),
               taken |-> AppJsOlder_returnTaken(a.x, a.y, a.rad),
               current |-> getDominantDirectionOver(a.x, a.y, a.rad)]>>
    /\ UNCHANGED <<authVars, streamVars, monitorVars, controlVars, joystickVars,
                   effectDeps, publishVars, sensorVars, mapVars, classifyArgs, loginVars>>

\* mousemove / touchmove on the window while dragging, the pointer at offset
\* (newX, newY) from the centre of the joystick container.
handleJoystickMove(newX, newY) ==
    /\ EffectsFlushed
    /\ JoystickListening
    /\ IF ~isDragging \/ user = null
          THEN UNCHANGED <<joystickPos, currentDirection>>
          ELSE LET pos == clampToRadius(newX, newY)
               IN /\ joystickPos' = pos
                  /\ currentDirection' = getDominantDirectionOver(pos.x, pos.y, pos.rad)
    /\ UNCHANGED <<authVars, streamVars, monitorVars, dataVars, mode, speed,
                   sprayLeftActive, sprayRightActive, isDragging>>

\* The pointer offset behind a knob position.
pointerOf(pos) ==
    IF "rad" \in DOMAIN pos /\ pos.rad > 1
       THEN [x |-> pos.x \div joystickRadius, y |-> pos.y \div joystickRadius]
       ELSE [x |-> pos.x, y |-> pos.y]

\* The pointer moves by at most MaxPointerStep pixels in each coordinate
\* between two move events, within MaxPointerOffset of the centre.
JoystickPointerMove ==
    /\ JoystickListening
    /\ LET at == pointerOf(joystickPos)
       IN \E dx \in -MaxPointerStep..MaxPointerStep, dy \in -MaxPointerStep..MaxPointerStep :
            /\ Abs(at.x + dx) <= MaxPointerOffset
            /\ Abs(at.y + dy) <= MaxPointerOffset
            /\ handleJoystickMove(at.x + dx, at.y + dy)

\* Variant: the pointer going up leaves the command as it is.
handleJoystickEnd_KeepsCommand ==
    /\ EffectsFlushed
    /\ JoystickListening
    /\ IF user = null
          THEN UNCHANGED <<isDragging, joystickPos, currentDirection>>
          ELSE /\ isDragging' = FALSE
               /\ joystickPos' = [x |-> 0, y |-> 0]
               /\ UNCHANGED currentDirection
    /\ UNCHANGED <<authVars, streamVars, monitorVars, dataVars, mode, speed,
                   sprayLeftActive, sprayRightActive>>

\* mouseup / touchend on the window while dragging.
handleJoystickEnd ==
    /\ EffectsFlushed
    /\ JoystickListening
    /\ IF user = null
          THEN UNCHANGED <<isDragging, joystickPos, currentDirection>>
          ELSE /\ isDragging' = FALSE
               /\ joystickPos' = [x |-> 0, y |-> 0]
               /\ currentDirection' = "CENTER"
    /\ UNCHANGED <<authVars, streamVars, monitorVars, dataVars, mode, speed,
                   sprayLeftActive, sprayRightActive>>

\* -------------------------------------------------------------- publisher
\* Variant: the left and right flags exchanged.
updateFirebase_LeftRightSwapped(dir, sLeftActive, sRightActive) ==
    [up |-> IF dir = "UP" THEN "1" ELSE "0",
     down |-> IF dir = "DOWN" THEN "1" ELSE "0",
     left |-> IF dir = "RIGHTY" THEN "1" ELSE "0",
     right |-> IF dir = "LEFTY" THEN "1" ELSE "0",
     spray_left |-> IF sLeftActive THEN "1" ELSE "0",
     spray_right |-> IF sRightActive THEN "1" ELSE "0",
     timestamp |-> now]

\* The object updateFirebase(dir, sLeftActive, sRightActive) hands to
\* update(ref(database, "/"), ...); sLeftActive and sRightActive stand for the
\* truth value of the arguments (sLeftActive ? "1" : "0").
updateFirebase(dir, sLeftActive, sRightActive) ==
    [up |-> IF dir = "UP" THEN "1" ELSE "0",
     down |-> IF dir = "DOWN" THEN "1" ELSE "0",
     left |-> IF dir = "LEFTY" THEN "1" ELSE "0",
     right |-> IF dir = "RIGHTY" THEN "1" ELSE "0",
     spray_left |-> IF sLeftActive THEN "1" ELSE "0",
     spray_right |-> IF sRightActive THEN "1" ELSE "0",
     timestamp |-> now]

\* An update of the command fields, as opposed to the speed update.
IsCommandUpdate(w) == "up" \in DOMAIN w

\* The dependency list [currentDirection, sprayLeftActive, sprayRightActive,
\* updateFirebase, user] of the publish effect (updateFirebase never changes).
PublishDepsNow == [dir |-> currentDirection, left |-> sprayLeftActive,
                   right |-> sprayRightActive, user |-> user]
PublishFlushed == effectDeps.publish = PublishDepsNow

\* Variant: the publish effect without the test of user.
PublishEffect_NoUserCheck ==
    /\ ~PublishFlushed
    /\ effectDeps' = [effectDeps EXCEPT !.publish = PublishDepsNow]
    /\ LET w == updateFirebase(currentDirection, sprayLeftActive, sprayRightActive)
       IN /\ writes' = Append(writes, w)
          /\ lastWrite' = <<w>>
    /\ UNCHANGED <<authVars, streamVars, monitorVars, controlVars, joystickVars,
                   lastSettled, sensorVars, mapVars, classifyVars, loginVars>>

\* The publish effect, run after a render in which one of its dependencies
\* changed: if (user) updateFirebase(currentDirection, sprayLeftActive,
\* sprayRightActive).  The update is in flight until its promise settles.
PublishEffect ==
    /\ ~PublishFlushed
    /\ effectDeps' = [effectDeps EXCEPT !.publish = PublishDepsNow]
    /\ IF user # null
          THEN LET w == updateFirebase(currentDirection, sprayLeftActive, sprayRightActive)
               IN /\ writes' = Append(writes, w)
                  /\ lastWrite' = <<w>>
          ELSE UNCHANGED <<writes, lastWrite>>
    /\ UNCHANGED <<authVars, streamVars, monitorVars, controlVars, joystickVars,
                   lastSettled, sensorVars, mapVars, classifyVars, loginVars>>

\* await update(...) resolves: nothing else happens.
WriteSucceeds(i) ==
    /\ writes' = RemoveAt(writes, i)
    /\ lastSettled' = <<[error |-> FALSE]>>
    /\ UNCHANGED <<authVars, streamVars, monitorVars, controlVars, joystickVars,
                   effectDeps, lastWrite, sensorVars, mapVars, classifyVars, loginVars>>

\* Variant: a rejected update is issued again.
afterWriteFailure_Retry(ws, i) == Append(RemoveAt(ws, i), ws[i])

\* The updates in flight after update number i was rejected: the catch block
\* (console.error, and .catch(console.error) of the speed update) logs the
\* error and issues nothing.
afterWriteFailure(ws, i) == RemoveAt(ws, i)

\* await update(...) rejects: the error is logged.
WriteFails(i) ==
    /\ writes' = afterWriteFailure(writes, i)
    /\ lastSettled' = <<[error |-> TRUE]>>
    /\ UNCHANGED <<authVars, streamVars, monitorVars, controlVars, joystickVars,
                   effectDeps, lastWrite, sensorVars, mapVars, classifyVars, loginVars>>

\* String(newSpeed)
String(n) == ToString(n)

\* Click on the speed button, with the update it issues:
\* update(ref(database, "/"), { speed: String(newSpeed) }).catch(console.error).
toggleSpeedAndUpdate ==
    /\ EffectsFlushed
    /\ MainAppShown
    /\ IF user = null
          THEN UNCHANGED <<speed, writes, lastWrite>>
          ELSE LET newSpeed == (speed % 3) + 1
               IN /\ speed' = newSpeed
                  /\ writes' = Append(writes, [speed |-> String(newSpeed)])
                  /\ lastWrite' = <<[speed |-> String(newSpeed)]>>
    /\ UNCHANGED <<authVars, streamVars, monitorVars, joystickVars, mode, currentDirection,
                   sprayLeftActive, sprayRightActive, effectDeps, lastSettled,
                   sensorVars, mapVars, classifyVars, loginVars>>

\* An event handler runs after the effects of the previous render, and (a
\* bound of the model) while fewer than MaxWritesInFlight updates are in flight.
PublisherReady == PublishFlushed /\ Len(writes) < MaxWritesInFlight

\* ------------------------------------------- the variant without a login
\* src/src/App.js: the same controls and updateFirebase, no authentication;
\* the handlers do not test user, and the main application is always shown.
\* The dependency list [currentDirection, speed, sprayLeftActive,
\* sprayRightActive, updateFirebase] of its publish effect.
AppJs_PublishDepsNow == [dir |-> currentDirection, speed |-> speed,
                         left |-> sprayLeftActive, right |-> sprayRightActive]
\* At mount the effect has not run with any dependencies yet.
AppJs_PublishFlushed == effectDeps.publish = AppJs_PublishDepsNow

\* The publish effect of App.js:
\*   updateFirebase(currentDirection, speed, sprayLeftActive, sprayRightActive)
\* calls the three-parameter updateFirebase(dir, sLeftActive, sRightActive)
\* with four arguments: sLeftActive receives speed (a number, truthy unless
\* 0), sRightActive receives sprayLeftActive, sprayRightActive is dropped.
AppJs_PublishEffect ==
    /\ ~AppJs_PublishFlushed
    /\ effectDeps' = [effectDeps EXCEPT !.publish = AppJs_PublishDepsNow]
    /\ LET w == updateFirebase(currentDirection, speed # 0, sprayLeftActive)
       IN /\ writes' = Append(writes, w)
          /\ lastWrite' = <<w>>
    /\ UNCHANGED <<authVars, streamVars, monitorVars, controlVars, joystickVars,
                   lastSettled, sensorVars, mapVars, classifyVars, loginVars>>

AppJs_handleDirectionPress(direction) ==
    /\ mode = "ARROWS"
    /\ currentDirection' = direction
    /\ UNCHANGED <<authVars, streamVars, monitorVars, dataVars, joystickVars, mode, speed,
                   sprayLeftActive, sprayRightActive>>

AppJs_handleDirectionRelease ==
    /\ mode = "ARROWS"
    /\ currentDirection' = "CENTER"
    /\ UNCHANGED <<authVars, streamVars, monitorVars, dataVars, joystickVars, mode, speed,
                   sprayLeftActive, sprayRightActive>>

AppJs_handleSprayPress(sprayType) ==
    /\ IF sprayType = "left"
          THEN sprayLeftActive' = TRUE /\ UNCHANGED sprayRightActive
          ELSE sprayRightActive' = TRUE /\ UNCHANGED sprayLeftActive
    /\ UNCHANGED <<authVars, streamVars, monitorVars, dataVars, joystickVars, mode, speed,
                   currentDirection>>

AppJs_handleSprayRelease(sprayType) ==
    /\ IF sprayType = "left"
          THEN sprayLeftActive' = FALSE /\ UNCHANGED sprayRightActive
          ELSE sprayRightActive' = FALSE /\ UNCHANGED sprayLeftActive
    /\ UNCHANGED <<authVars, streamVars, monitorVars, dataVars, joystickVars, mode, speed,
                   currentDirection>>

\* newSpeed = (speed % 3) + 1; setSpeed(newSpeed);
\* update(ref(database, "/"), { speed: String(newSpeed) }).catch(...)
AppJs_toggleSpeed ==
    /\ LET newSpeed == (speed % 3) + 1
       IN /\ speed' = newSpeed
          /\ writes' = Append(writes, [speed |-> String(newSpeed)])
          /\ lastWrite' = <<[speed |-> String(newSpeed)]>>
    /\ UNCHANGED <<authVars, streamVars, monitorVars, joystickVars, mode, currentDirection,
                   sprayLeftActive, sprayRightActive, effectDeps, lastSettled,
                   sensorVars, mapVars, classifyVars, loginVars>>

AppJs_toggleControlMode ==
    /\ mode' = IF mode = "ARROWS" THEN "JOYSTICK" ELSE "ARROWS"
    /\ currentDirection' = "CENTER"
    /\ sprayLeftActive' = FALSE
    /\ sprayRightActive' = FALSE
    /\ UNCHANGED <<authVars, streamVars, monitorVars, dataVars, joystickVars, speed>>

AppJs_PublisherReady == AppJs_PublishFlushed /\ Len(writes) < MaxWritesInFlight

\* -------------------------------------------------------------- telemetry
\* Values of the fields of a database record.  A number is v / 10^decimals;
\* a field the record does not have reads as undefined.
undefined == [kind |-> "undefined", v |-> 0]
Num(v, decimals) == [kind |-> "number", v |-> v, decimals |-> decimals]
Str(s) == [kind |-> "string", v |-> s]
\* The numbers Infinity and NaN, and the strings "Infinity" and "NaN" that
\* toFixed makes of them and parseFloat reads back.
Infinity == [kind |-> "Infinity", v |-> 0]
NaN == [kind |-> "NaN", v |-> 0]

RECURSIVE Pow10(_)
Pow10(k) == IF k = 0 THEN 1 ELSE 10 * Pow10(k - 1)

\* Number.prototype.toFixed(digits): the decimal string with that many
\* digits after the point, rounded to the nearest; "Infinity" and "NaN" for
\* the numbers that are not finite.
toFixed(num, digits) ==
    IF num.kind # "number" THEN num
    ELSE IF digits >= num.decimals
            THEN [kind |-> "fixed", v |-> num.v * Pow10(digits - num.decimals),
                  decimals |-> digits]
    ELSE LET d == Pow10(num.decimals - digits)
             half == d \div 2
         IN [kind |-> "fixed",
             v |-> IF num.v >= 0 THEN (num.v + half) \div d ELSE -((half - num.v) \div d),
             decimals |-> digits]

\* parseFloat: a number is itself, a decimal string its number, the string
\* "Infinity" the number Infinity, anything else ('N/A', "NaN", text) NaN.
parseFloat(s) ==
    IF s.kind = "number" THEN s
    ELSE IF s.kind = "fixed" THEN Num(s.v, s.decimals)
    ELSE IF s.kind = "Infinity" THEN Infinity
    ELSE NaN

isNaN(num) == num.kind = "NaN"

\* Variant: 'N/A' for every falsy value, the number 0 included.
fixedOrNA_Truthy(value, digits) ==
    IF value = undefined \/ (value.kind = "number" /\ value.v = 0)
       THEN NA ELSE toFixed(value, digits)

\* value !== undefined ? value.toFixed(digits) : 'N/A'
fixedOrNA(value, digits) ==
    IF value # undefined THEN toFixed(value, digits) ELSE NA

\* value !== undefined ? parseFloat(value).toFixed(6) : 'N/A'
parsedOrNA(value) ==
    IF value # undefined THEN toFixed(parseFloat(value), 6) ELSE NA

\* value !== undefined ? value : 'N/A'
valueOrNA(value) ==
    IF value # undefined THEN value ELSE NA

\* What the device can have stored in each telemetry field (accelerations and
\* the distance with three decimals, the coordinates with seven; the latitude
\* also as the text "Infinity", the longitude also as text that is no number).
FieldValues ==
    [accel_x |-> {undefined, Num(0, 3), Num(1234, 3)},
     accel_y |-> {undefined, Num(-2718, 3)},
     accel_z |-> {undefined, Num(9806, 3)},
     distance_cm |-> {undefined, Num(25004, 3)},
     motion |-> {undefined, Str("YES")},
     latitude |-> {undefined, Num(64423017, 7), Infinity},
     longitude |-> {undefined, Num(1001991042, 7), Str("abc")},
     geolat |-> {undefined, Num(64501238, 7)},
     geolong |-> {undefined, Num(1002103561, 7)}]

TelemetryFields == DOMAIN FieldValues

\* The flat records the root listener can be handed.
TelemetryRecords ==
    [accel_x : FieldValues.accel_x, accel_y : FieldValues.accel_y,
     accel_z : FieldValues.accel_z, distance_cm : FieldValues.distance_cm,
     motion : FieldValues.motion, latitude : FieldValues.latitude,
     longitude : FieldValues.longitude, geolat : FieldValues.geolat,
     geolong : FieldValues.geolong]

\* The dependency lists of the sensor effect ([database, user]), of the map
\* initialisation ([user]) and of the marker effect
\* ([gpsLocation, gpsSource, user]).
MarkerDepsNow == [gps |-> gpsLocation, source |-> gpsSource, user |-> user]
SensorFlushed == effectDeps.sensor = user
MapInitFlushed == effectDeps.map = user
MarkerFlushed == effectDeps.marker = MarkerDepsNow
DataFlushed == SensorFlushed /\ MapInitFlushed /\ MarkerFlushed

\* The sensor effect: without a user every sensor state is set to 'N/A';
\* with a user the listener on the root of the database is attached (the
\* cleanup of the previous run detached the old one).
SensorEffect ==
    /\ ~SensorFlushed
    /\ effectDeps' = [effectDeps EXCEPT !.sensor = user]
    /\ lastSnapshot' = <<>>
    /\ IF user = null
          THEN /\ accelerometerData' = [x |-> NA, y |-> NA, z |-> NA]
               /\ ultrasonicDistance' = NA
               /\ motionStatus' = NA
               /\ gpsLocation' = NoGps
          ELSE UNCHANGED <<accelerometerData, ultrasonicDistance, motionStatus, gpsLocation>>
    /\ UNCHANGED <<authVars, streamVars, monitorVars, controlVars, joystickVars,
                   publishVars, mapVars, classifyVars, loginVars>>

\* The onValue callback of the root listener, handed the record data.
onValue(data) ==
    /\ EffectsFlushed /\ DataFlushed
    /\ user # null
    /\ accelerometerData' = [x |-> fixedOrNA(data.accel_x, 2),
                             y |-> fixedOrNA(data.accel_y, 2),
                             z |-> fixedOrNA(data.accel_z, 2)]
    /\ ultrasonicDistance' = fixedOrNA(data.distance_cm, 2)
    /\ motionStatus' = valueOrNA(data.motion)
    /\ gpsLocation' = [latitude |-> parsedOrNA(data.latitude),
                       longitude |-> parsedOrNA(data.longitude),
                       geolat |-> parsedOrNA(data.geolat),
                       geolong |-> parsedOrNA(data.geolong)]
    /\ lastSnapshot' = <<data>>
    /\ UNCHANGED <<authVars, streamVars, monitorVars, controlVars, joystickVars,
                   effectDeps, publishVars, mapVars, classifyVars, loginVars>>

\* The listener fires with the record of the database when it is attached,
\* and then whenever the device has written a field.
SnapshotDelivered ==
    /\ EffectsFlushed /\ DataFlushed /\ user # null
    /\ IF lastSnapshot = <<>>
          THEN \E data \in TelemetryRecords : onValue(data)
          ELSE \E f \in TelemetryFields : \E value \in FieldValues[f] \ {lastSnapshot[1][f]} :
                  onValue([lastSnapshot[1] EXCEPT ![f] = value])

\* ------------------------------------------------------- speed listener
\* snapshot.val() of a key that does not exist.
JsNull == [kind |-> "null", v |-> 0]

\* The decimal strings among the values of the 'speed' key, with their numbers.
DecimalStrings == ("1" :> 1) @@ ("2" :> 2) @@ ("3" :> 3) @@ ("7" :> 7)

\* What the 'speed' key of the database can hold: nothing, a number, a
\* decimal string (toggleSpeed writes "1", "2", "3"), other text.
RemoteSpeedValues ==
    {JsNull, Str("fast")}
      \cup {Num(n, 0) : n \in 0..MaxRemoteSpeed}
      \cup {Str(d) : d \in DOMAIN DecimalStrings}

\* Number(value), the conversion isNaN applies to its argument.
ToNumber(value) ==
    IF value.kind = "number" THEN value
    ELSE IF value.kind = "string" /\ value.v \in DOMAIN DecimalStrings
            THEN Num(DecimalStrings[value.v], 0)
    ELSE NaN

\* parseInt(value, 10): the integer part of a number, the number of a decimal
\* string.
parseInt(value) ==
    IF value.kind = "number"
       THEN (IF value.v >= 0 THEN value.v \div Pow10(value.decimals)
                             ELSE -((-value.v) \div Pow10(value.decimals)))
       ELSE DecimalStrings[value.v]

\* The onValue callback of the listener on the 'speed' key (attached at
\* mount, with or without a user):
\*   if (value !== null && !isNaN(value)) setSpeed(parseInt(value, 10))
speedListener(value) ==
    /\ EffectsFlushed
    /\ IF value # JsNull /\ ~isNaN(ToNumber(value))
          THEN speed' = parseInt(value)
          ELSE UNCHANGED speed
    /\ UNCHANGED <<authVars, streamVars, monitorVars, joystickVars, dataVars, mode,
                   currentDirection, sprayLeftActive, sprayRightActive>>

\* ------------------------------------------------------------------- map
\* initialLatLng = { lat: 6.4419, lng: 100.1989 }
initialLatLng == [lat |-> Num(64419, 4), lng |-> Num(1001989, 4)]

\* The map initialisation effect: without a user the map and the marker are
\* dropped; with a user the script of the maps API is added to the page.
MapInitEffect ==
    /\ ~MapInitFlushed
    /\ effectDeps' = [effectDeps EXCEPT !.map = user]
    /\ IF user = null THEN googleMarker' = <<>> ELSE UNCHANGED googleMarker
    /\ UNCHANGED <<authVars, streamVars, monitorVars, controlVars, joystickVars,
                   publishVars, sensorVars, gpsSource, classifyVars, loginVars>>

\* The script has loaded and calls initMap: with the map element on the page
\* the map and its marker are created at initialLatLng.
initMap ==
    /\ EffectsFlushed /\ DataFlushed
    /\ MainAppShown
    /\ googleMarker = <<>>
    /\ googleMarker' = <<[position |-> initialLatLng, center |-> initialLatLng]>>
    /\ UNCHANGED <<authVars, streamVars, monitorVars, controlVars, joystickVars,
                   effectDeps, publishVars, sensorVars, gpsSource, classifyVars, loginVars>>

\* Click on the NEO6 or the GEOLOCATION button.
setGpsSource(source) ==
    /\ EffectsFlushed /\ DataFlushed
    /\ MainAppShown
    /\ gpsSource' = source
    /\ UNCHANGED <<authVars, streamVars, monitorVars, controlVars, joystickVars,
                   effectDeps, publishVars, sensorVars, googleMarker, classifyVars, loginVars>>

\* The coordinates of the selected source, parsed.
selectedLatLng ==
    [lat |-> parseFloat(IF gpsSource = "NEO6" THEN gpsLocation.latitude
                                              ELSE gpsLocation.geolat),
     lng |-> parseFloat(IF gpsSource = "NEO6" THEN gpsLocation.longitude
                                              ELSE gpsLocation.geolong)]

\* The marker effect: with a user, a map and a marker, and both parsed
\* coordinates passing !isNaN, setPosition and setCenter.
MarkerEffect ==
    /\ ~MarkerFlushed
    /\ effectDeps' = [effectDeps EXCEPT !.marker = MarkerDepsNow]
    /\ IF user = null \/ googleMarker = <<>>
          THEN UNCHANGED googleMarker
          ELSE LET latNum == selectedLatLng.lat
                   lngNum == selectedLatLng.lng
               IN IF ~isNaN(latNum) /\ ~isNaN(lngNum)
                     THEN googleMarker' = <<[position |-> selectedLatLng,
                                             center |-> selectedLatLng]>>
                     ELSE UNCHANGED googleMarker
    /\ UNCHANGED <<authVars, streamVars, monitorVars, controlVars, joystickVars,
                   publishVars, sensorVars, gpsSource, classifyVars, loginVars>>

\* ------------------------------------------- handlers called without a user
\* Each control handler called directly, whatever the page shows.  Every one
\* starts with if (!user) return (handleJoystickMove: if (!isDragging ||
\* !user) return): without a user the call returns at once; with a user it
\* is the handler above.
\* Variant: handleSprayPress without its first line.
handleSprayPressCall_NoUserCheck(sprayType) ==
    /\ EffectsFlushed
    /\ IF sprayType = "left"
          THEN sprayLeftActive' = TRUE /\ UNCHANGED sprayRightActive
          ELSE sprayRightActive' = TRUE /\ UNCHANGED sprayLeftActive
    /\ UNCHANGED <<authVars, streamVars, monitorVars, dataVars, joystickVars, mode, speed,
                   currentDirection>>

handleDirectionPressCall(direction) ==
    IF user = null THEN EffectsFlushed /\ UNCHANGED vars
    ELSE handleDirectionPress(direction)

handleDirectionReleaseCall ==
    IF user = null THEN EffectsFlushed /\ UNCHANGED vars
    ELSE handleDirectionRelease

handleSprayPressCall(sprayType) ==
    IF user = null THEN EffectsFlushed /\ UNCHANGED vars
    ELSE handleSprayPress(sprayType)

handleSprayReleaseCall(sprayType) ==
    IF user = null THEN EffectsFlushed /\ UNCHANGED vars
    ELSE handleSprayRelease(sprayType)

toggleSpeedCall ==
    IF user = null THEN EffectsFlushed /\ UNCHANGED vars
    ELSE toggleSpeedAndUpdate

toggleControlModeCall ==
    IF user = null THEN EffectsFlushed /\ UNCHANGED vars
    ELSE toggleControlMode

handleJoystickStartCall(newX, newY) ==
    IF user = null THEN EffectsFlushed /\ UNCHANGED vars
    ELSE handleJoystickStart(newX, newY)

handleJoystickMoveCall(newX, newY) ==
    IF user = null THEN EffectsFlushed /\ UNCHANGED vars
    ELSE handleJoystickMove(newX, newY)

handleJoystickEndCall ==
    IF user = null THEN EffectsFlushed /\ UNCHANGED vars
    ELSE handleJoystickEnd

handleManualReconnectCall ==
    IF user = null THEN EffectsFlushed /\ UNCHANGED vars
    ELSE handleManualReconnect

\* Some control handler is called.
ControlCall ==
    \/ \E d \in Directions : handleDirectionPressCall(d)
    \/ handleDirectionReleaseCall
    \/ \E t \in SprayTypes : handleSprayPressCall(t)
    \/ \E t \in SprayTypes : handleSprayReleaseCall(t)
    \/ toggleSpeedCall
    \/ toggleControlModeCall
    \/ \E p \in CallOffsets : handleJoystickStartCall(p[1], p[2])
    \/ \E p \in CallOffsets : handleJoystickMoveCall(p[1], p[2])
    \/ handleJoystickEndCall
    \/ handleManualReconnectCall

\* ------------------------------------------------------------------ time
\* Times at which a registered timer is due: the interval timers and the
\* abort timers of the probes in flight.
Deadlines == {t.due : t \in refreshInterval}
             \cup {inflight[i].deadline : i \in 1..Len(inflight)}

\* Time passes, never beyond a timer that is due, up to the time limit.
TickUpTo(limit) ==
    /\ EffectsFlushed
    /\ \A d \in Deadlines : d > now
    /\ LET next == now + TickMs
           soonest == IF \E d \in Deadlines : d < next
                         THEN CHOOSE d \in Deadlines : \A e \in Deadlines : d <= e
                         ELSE next
       IN /\ soonest <= limit
          /\ now' = soonest
    /\ UNCHANGED <<authVars, streamVars, inflight, refreshInterval, visibilityListeners,
                   visibilityState, cameraDeps, lastIssue, lastApplied, controlVars, joystickVars, dataVars>>

Tick == TickUpTo(MaxTime)
TickControls == TickUpTo(MaxTimeControls)

\* --------------------------------------------------------- specifications
\* The session and the stream monitor, with the clock; the controls rest.
Next ==
    \/ \E u \in Users : onAuthStateChanged(u)
    \/ CameraStreamEffect
    \/ \E t \in refreshInterval : IntervalFires(t)
    \/ \E v \in {"visible", "hidden"} : VisibilityChange(v)
    \/ \E i \in 1..Len(inflight) : ProbeSucceeds(i)
    \/ \E i \in 1..Len(inflight) : ProbeFails(i)
    \/ handleManualReconnect
    \/ iframeOnError
    \/ Tick

Spec == Init /\ [][Next]_vars

\* The session, the stream monitor and the control handlers together, over a
\* shorter stretch of time (MaxTimeControls).
NextControls ==
    \/ \E u \in Users : onAuthStateChanged(u)
    \/ CameraStreamEffect
    \/ \E v \in {"visible", "hidden"} : VisibilityChange(v)
    \/ \E i \in 1..Len(inflight) : ProbeSucceeds(i)
    \/ \E i \in 1..Len(inflight) : ProbeFails(i)
    \/ handleManualReconnect
    \/ iframeOnError
    \/ ControlAction
    \/ TickControls

SpecControls == Init /\ [][NextControls]_vars

\* The session and the joystick: mode switches, and pointers going down on
\* the joystick container and up again.  The clock rests.
NextJoystick ==
    \/ \E u \in Users : onAuthStateChanged(u)
    \/ CameraStreamEffect
    \/ toggleControlMode
    \/ JoystickPointerDown
    \/ handleJoystickEnd

SpecJoystick == Init /\ [][NextJoystick]_vars

\* The joystick dragged: pointer down, moves, pointer up.
NextDrag ==
    \/ \E u \in Users : onAuthStateChanged(u)
    \/ CameraStreamEffect
    \/ toggleControlMode
    \/ JoystickPointerDown
    \/ JoystickPointerMove
    \/ handleJoystickEnd

SpecDrag == Init /\ [][NextDrag]_vars

\* The session, the control handlers and the publisher.
NextPublish ==
    \/ PublisherReady /\ \E u \in Users : onAuthStateChanged(u)
    \/ CameraStreamEffect
    \/ PublishEffect
    \/ \E i \in 1..Len(writes) : WriteSucceeds(i)
    \/ \E i \in 1..Len(writes) : WriteFails(i)
    \/ PublisherReady /\ \E d \in Directions : handleDirectionPress(d)
    \/ PublisherReady /\ handleDirectionRelease
    \/ PublisherReady /\ \E t \in SprayTypes : handleSprayPress(t)
    \/ PublisherReady /\ \E t \in SprayTypes : handleSprayRelease(t)
    \/ PublisherReady /\ toggleSpeedAndUpdate
    \/ PublisherReady /\ toggleControlMode

SpecPublish == Init /\ [][NextPublish]_vars

\* A pointer goes down on the joystick container at an offset of the grid.
JoystickPointerDownOnGrid ==
    /\ JoystickShown /\ ~isDragging
    /\ \E p \in GridOffsets : handleJoystickStart(p[1], p[2])

\* Direction buttons and joystick, pressed and released, with the publisher.
NextRelease ==
    \/ PublisherReady /\ \E u \in Users : onAuthStateChanged(u)
    \/ CameraStreamEffect
    \/ PublishEffect
    \/ \E i \in 1..Len(writes) : WriteSucceeds(i)
    \/ \E i \in 1..Len(writes) : WriteFails(i)
    \/ PublisherReady /\ \E d \in Directions : handleDirectionPress(d)
    \/ PublisherReady /\ handleDirectionRelease
    \/ PublisherReady /\ toggleControlMode
    \/ PublisherReady /\ JoystickPointerDownOnGrid
    \/ PublisherReady /\ handleJoystickEnd

SpecRelease == Init /\ [][NextRelease]_vars

\* The speed button and the listener on the remote 'speed' key.
NextSpeed ==
    \/ PublisherReady /\ \E u \in Users : onAuthStateChanged(u)
    \/ CameraStreamEffect
    \/ PublishEffect
    \/ \E i \in 1..Len(writes) : WriteSucceeds(i)
    \/ \E i \in 1..Len(writes) : WriteFails(i)
    \/ PublisherReady /\ toggleSpeedAndUpdate
    \/ PublishFlushed /\ \E value \in RemoteSpeedValues : speedListener(value)

SpecSpeed == Init /\ [][NextSpeed]_vars

\* The session and the publisher, with every control handler called in every
\* state, logged in or not.
NextCalls ==
    \/ PublisherReady /\ \E u \in Users : onAuthStateChanged(u)
    \/ CameraStreamEffect
    \/ PublishEffect
    \/ \E i \in 1..Len(writes) : WriteSucceeds(i)
    \/ \E i \in 1..Len(writes) : WriteFails(i)
    \/ PublisherReady /\ \E d \in Directions : handleDirectionPressCall(d)
    \/ PublisherReady /\ handleDirectionReleaseCall
    \/ PublisherReady /\ \E t \in SprayTypes : handleSprayPressCall(t)
    \/ PublisherReady /\ \E t \in SprayTypes : handleSprayReleaseCall(t)
    \/ PublisherReady /\ toggleSpeedCall
    \/ PublisherReady /\ toggleControlModeCall
    \/ PublisherReady /\ \E p \in CallOffsets : handleJoystickStartCall(p[1], p[2])
    \/ PublisherReady /\ \E p \in CallOffsets : handleJoystickMoveCall(p[1], p[2])
    \/ PublisherReady /\ handleJoystickEndCall
    \/ PublisherReady /\ handleManualReconnectCall

SpecCalls == Init /\ [][NextCalls]_vars

\* The listener call and the rest of handleLogin that follow a change of the
\* auth instance's user are promise callbacks: both have run, in either
\* order, before the page handles the next event of its user.
AuthFlushed ==
    /\ authCurrentUser \in Users /\ ~loadingAuth /\ user = authCurrentUser
    /\ signIn # "fulfilled"

\* Logging in and out, with the control handlers of the main application.
NextLogin ==
    \/ \E u \in Users : AuthInitialized(u)
    \/ AuthStateNotified
    \/ CameraStreamEffect
    \/ AuthFlushed /\ handleLogin
    \/ SignInAccepted
    \/ handleLogin_Fulfilled
    \/ \E code \in ErrorCodes : handleLogin_Rejected(code)
    \/ AuthFlushed /\ handleLogout
    \/ AuthFlushed /\ ControlAction

SpecLogin == Init /\ [][NextLogin]_vars

\* The controls and the publisher of src/src/App.js.
NextAppJs ==
    \/ AppJs_PublishEffect
    \/ \E i \in 1..Len(writes) : WriteSucceeds(i)
    \/ \E i \in 1..Len(writes) : WriteFails(i)
    \/ AppJs_PublisherReady /\ \E d \in Directions : AppJs_handleDirectionPress(d)
    \/ AppJs_PublisherReady /\ AppJs_handleDirectionRelease
    \/ AppJs_PublisherReady /\ \E t \in SprayTypes : AppJs_handleSprayPress(t)
    \/ AppJs_PublisherReady /\ \E t \in SprayTypes : AppJs_handleSprayRelease(t)
    \/ AppJs_PublisherReady /\ AppJs_toggleSpeed
    \/ AppJs_PublisherReady /\ AppJs_toggleControlMode

SpecAppJs == Init /\ [][NextAppJs]_vars

\* The session, the telemetry listener and the map.
NextTelemetry ==
    \/ DataFlushed /\ \E u \in Users : onAuthStateChanged(u)
    \/ CameraStreamEffect
    \/ SensorEffect
    \/ MapInitEffect
    \/ MarkerEffect
    \/ SnapshotDelivered
    \/ initMap
    \/ \E source \in {"NEO6", "GEOLOCATION"} : setGpsSource(source)

SpecTelemetry == Init /\ [][NextTelemetry]_vars

\* The classifier on its own: inputs drawn from ClassifyInputs, classified once.
InitClassify ==
    /\ InitState
    /\ classifyArgs \in {<<a>> : a \in ClassifyInputs}
    /\ classifyResult = <<>>

NextClassify == Classify

SpecClassify == InitClassify /\ [][NextClassify]_vars

\* The two classifiers side by side on one offset.
InitClassifyBoth ==
    /\ InitState
    /\ classifyArgs \in {<<a>> : a \in ClassifierOffsets}
    /\ classifyResult = <<>>

NextClassifyBoth == ClassifyBoth

SpecClassifyBoth == InitClassifyBoth /\ [][NextClassifyBoth]_vars

\* Holds in the specifications in which speed changes through the speed
\* button only (not in SpecSpeed, where the listener sets it).
TypeOK ==
    /\ Len(inflight) <= MaxInFlight
    /\ now <= MaxTime
    /\ speed \in 1..3

\* ------------------------------------------------------------ properties
\* The pure reducer of the specification (section 4.2), the reference the
\* monitor's state updates are compared with.
applyResult(s, r) ==
    IF r.kind = "Success"
       THEN [currentUrl |-> r.url, lastGoodUrl |-> r.url, hasError |-> FALSE]
       ELSE [currentUrl |-> s.lastGoodUrl, lastGoodUrl |-> s.lastGoodUrl, hasError |-> TRUE]

\* Kinds of step.
ProbeResolves == \E i \in 1..Len(inflight) : inflight' = RemoveAt(inflight, i)
ProbeIssued == Len(inflight') > Len(inflight)
ManualReconnectStep ==
    /\ lastApplied'.kind = "Reconnect"
    /\ videoStreamError /\ ~videoStreamError'
RenderErrorStep ==
    /\ lastApplied'.kind = "RenderError"
    /\ inflight' = inflight /\ cameraDeps' = cameraDeps
SessionResetStep == cameraDeps' # cameraDeps /\ user = null
ControlStep == controlVars' # controlVars

\* C1: in every reachable state, hasError implies currentUrl = lastGoodUrl
\* when lastGoodUrl is non-empty and currentUrl empty when lastGoodUrl is empty.
C1_ErrorShowsLastGood ==
    videoStreamError =>
        IF Truthy(lastGoodStreamUrl) THEN cctvStream = lastGoodStreamUrl
                                     ELSE cctvStream = EmptyUrl

\* C2: during a session every probe result is applied, in the order of
\* resolution, to the stream state current when it resolves, as the pure
\* reducer applyResult prescribes (so the last result to resolve wins).
C2_ResolutionOrderFold ==
    [][(ProbeResolves /\ user # null)
         => StreamState' = applyResult(StreamState, lastApplied')]_vars

\* C3: a probe that resolves successfully with URL u leaves the stream state
\* {currentUrl: u, lastGoodUrl: u, hasError: false}, whatever it was before.
C3_SuccessSetsAll ==
    [][\A i \in 1..Len(inflight) :
         (inflight' = RemoveAt(inflight, i) /\ lastApplied'.kind = "Success")
            => \E j \in 1..Len(inflight) :
                 /\ inflight' = RemoveAt(inflight, j)
                 /\ StreamState' = [currentUrl |-> inflight[j].url,
                                    lastGoodUrl |-> inflight[j].url,
                                    hasError |-> FALSE]]_vars

\* C3 witness: a successful probe has been applied to a state with hasError.
C3_Witness ==
    /\ lastApplied.kind = "Success" /\ lastApplied.wasError
    /\ cctvStream = lastApplied.url /\ lastGoodStreamUrl = lastApplied.url
    /\ ~videoStreamError

\* C4: a probe that resolves as Failure leaves hasError true, lastGoodUrl
\* unchanged and currentUrl equal to the lastGoodUrl the state held.
C4_FailureShowsLastGood ==
    [][(ProbeResolves /\ lastApplied'.kind = "Failure")
         => /\ videoStreamError'
            /\ lastGoodStreamUrl' = lastGoodStreamUrl
            /\ cctvStream' = lastGoodStreamUrl]_vars

\* C5: applying the same probe result twice in a row changes nothing the
\* second time.
C5_Idempotent ==
    [][(/\ ProbeResolves
        /\ lastApplied'.kind = lastApplied.kind
        /\ lastApplied'.url = lastApplied.url)
         => StreamState' = StreamState]_vars

\* C6: within a session, two consecutive probe issuances that are not
\* visibility-triggered are exactly the interval (5000 ms) apart.
C6_FixedInterval ==
    [][(/\ ProbeIssued
        /\ lastIssue.by \in {"effect", "interval"}
        /\ lastIssue'.by \in {"effect", "interval"})
         => lastIssue'.at - lastIssue.at = ProbeIntervalMs]_vars

\* C7: while no session is active (user null, the camera effect has run) the
\* stream state is {currentUrl: empty, lastGoodUrl: empty, hasError: false}.
C7_ResetWhileLoggedOut ==
    (user = null /\ EffectsFlushed)
        => StreamState = [currentUrl |-> EmptyUrl, lastGoodUrl |-> EmptyUrl,
                          hasError |-> FALSE]

\* C8: at most one interval timer and one visibility listener are registered
\* at any time, none is registered once the session has ended, and no probe
\* is issued while no user is logged in.
C8_TimerAndListenerScoped ==
    [][/\ Cardinality(refreshInterval') <= 1
       /\ Cardinality(visibilityListeners') <= 1
       /\ (user' = null /\ cameraDeps' = CameraDepsNow')
             => (refreshInterval' = {} /\ visibilityListeners' = {})
       /\ (user = null /\ user' = null) => ~ProbeIssued]_vars

\* C8 witness: a session has ended with a probe of it still in flight, and
\* its timer and listener are gone.
C8_Witness ==
    /\ user = null /\ EffectsFlushed /\ inflight # <<>>
    /\ refreshInterval = {} /\ visibilityListeners = {}

\* C9 as stated: the manual reconnect clears hasError at once and issues a probe.
C9_ManualIssuesProbe ==
    [][ManualReconnectStep => (~videoStreamError' /\ ProbeIssued)]_vars

\* C9 as amended: the manual reconnect clears hasError at once, sets
\* currentUrl to a fresh timestamped URL without probing it, leaves
\* lastGoodUrl unchanged and issues no probe.
C9_ManualLoadsUnprobedUrl ==
    [][ManualReconnectStep
         => /\ ~videoStreamError'
            /\ cctvStream' = TimestampedUrl(now)
            /\ lastGoodStreamUrl' = lastGoodStreamUrl
            /\ inflight' = inflight]_vars

\* C9 witness: the state right after a manual reconnect from the offline panel.
C9_Witness ==
    /\ lastApplied.kind = "Reconnect" /\ lastApplied.wasError
    /\ ~videoStreamError /\ Truthy(cctvStream) /\ ~Truthy(lastGoodStreamUrl)

IframeErrorStep ==
    /\ IframeShown
    /\ lastApplied' = Applied("RenderError", EmptyUrl)
    /\ UNCHANGED <<authVars, now, inflight, refreshInterval, visibilityListeners,
                   visibilityState, cameraDeps, lastIssue, controlVars, joystickVars, dataVars>>

\* C11: a render failure (the iframe's onError) leaves exactly the state the
\* reducer's Failure case prescribes: hasError true, lastGoodUrl unchanged,
\* currentUrl = lastGoodUrl (empty when lastGoodUrl is empty), from every
\* prior stream state.
C11_RenderErrorIsFailure ==
    [][IframeErrorStep
         => /\ StreamState' = applyResult(StreamState, [kind |-> "Failure", url |-> EmptyUrl])
            /\ videoStreamError'
            /\ lastGoodStreamUrl' = lastGoodStreamUrl
            /\ cctvStream' = lastGoodStreamUrl]_vars

\* C11 witness: a render failure has been applied to an error-free state and
\* the last good URL is shown.
C11_Witness ==
    /\ lastApplied.kind = "RenderError" /\ ~lastApplied.wasError
    /\ videoStreamError /\ Truthy(lastGoodStreamUrl)
    /\ cctvStream = lastGoodStreamUrl

\* Date.now() at the call of testStreamConnection that issued probe p.
IssuedAt(p) == p.url[1]

\* C12: every issued probe resolves exactly once, to Success with its
\* timestamped URL or to Failure; a probe still unanswered when its 3000 ms
\* timeout fires resolves to Failure; and no probe stays pending: none is in
\* flight more than 3000 ms after it was issued, and while one is in flight a
\* resolution of it is always possible.
C12_ProbeResolvesOnce ==
    [][/\ \A i \in 1..Len(inflight') :
            now' - IssuedAt(inflight'[i]) <= ProbeTimeoutMs
       /\ \A i \in 1..Len(inflight) :
            ENABLED (CameraStreamEffect \/ ProbeFails(i))
       /\ \A i \in 1..Len(inflight) :
            inflight' = RemoveAt(inflight, i)
               => /\ lastApplied'.kind \in {"Success", "Failure"}
                  /\ lastApplied'.kind = "Success"
                        => \E j \in 1..Len(inflight) :
                             /\ inflight' = RemoveAt(inflight, j)
                             /\ lastApplied'.url = inflight[j].url
                             /\ now - IssuedAt(inflight[j]) < ProbeTimeoutMs]_vars

\* C12 witness: one probe has resolved to Failure and another is still
\* unanswered at the moment its 3000 ms timeout fires.
C12_Witness ==
    /\ lastApplied.kind = "Failure"
    /\ \E i \in 1..Len(inflight) : now = IssuedAt(inflight[i]) + ProbeTimeoutMs

\* C13: every transport error or timeout of a probe ends in the state update
\* of a Failure result (hasError set, lastGoodUrl kept, the probed URL not
\* loaded) and disturbs nothing else: the interval timer, the visibility
\* listener and the other probes in flight are untouched, and throughout a
\* session one timer, due within the next interval, and one listener stay
\* registered, whatever number of probes has failed.
C13_ErrorsAbsorbed ==
    [][/\ \A i \in 1..Len(inflight) :
            (inflight' = RemoveAt(inflight, i) /\ lastApplied'.kind # "Success")
               => /\ lastApplied'.kind = "Failure"
                  /\ videoStreamError'
                  /\ lastGoodStreamUrl' = lastGoodStreamUrl
                  /\ cctvStream' # inflight[i].url \/ cctvStream' = lastGoodStreamUrl
                  /\ UNCHANGED <<refreshInterval, visibilityListeners, user, lastIssue>>
       /\ (user' # null /\ cameraDeps' = CameraDepsNow')
            => /\ Cardinality(visibilityListeners') = 1
               /\ Cardinality(refreshInterval') = 1
               /\ \A t \in refreshInterval' :
                    now' <= t.due /\ t.due <= now' + ProbeIntervalMs]_vars

\* C13 witness: after a second failure in a row the interval timer has issued
\* a further probe, and the listener is still registered.
C13_Witness ==
    /\ user # null /\ EffectsFlushed
    /\ lastApplied.kind = "Failure" /\ lastApplied.wasError /\ videoStreamError
    /\ lastIssue.by = "interval" /\ inflight # <<>>
    /\ Cardinality(visibilityListeners) = 1

\* C14: in the main application the offline panel is rendered exactly when
\* hasError is true and lastGoodUrl is empty, and in every other state the
\* iframe is rendered with currentUrl; so within a session, once a probe has
\* succeeded (lastGoodUrl is non-empty from then to the end of the session)
\* the offline panel is never rendered.
C14_OfflineOnlyNeverConnected ==
    [][/\ MainAppShown'
            => IF videoStreamError' /\ lastGoodStreamUrl' = EmptyUrl
                  THEN CameraSection'.panel = "offline"
                  ELSE CameraSection' = [panel |-> "iframe", src |-> cctvStream']
       /\ (user # null /\ ProbeResolves /\ lastApplied'.kind = "Success")
            => lastGoodStreamUrl' # EmptyUrl
       /\ (user # null /\ user' # null /\ lastGoodStreamUrl # EmptyUrl)
            => /\ lastGoodStreamUrl' # EmptyUrl
               /\ CameraSection'.panel # "offline"]_vars

\* C14 witness: a probe has failed after an earlier one of the session had
\* succeeded, and the iframe is still rendered.
C14_Witness ==
    /\ MainAppShown /\ EffectsFlushed
    /\ lastApplied.kind = "Failure" /\ videoStreamError
    /\ Truthy(lastGoodStreamUrl)
    /\ CameraSection.panel = "iframe"

\* The camera effect runs with a user after a run (or the initial state)
\* without one: the session starts.
SessionStartStep == cameraDeps.user = null /\ cameraDeps'.user # null

\* C15: when a session starts (user becomes non-null) a probe is issued
\* immediately: no time passes between the login and the effect run, the run
\* issues one probe stamped with the current time, and the interval timer it
\* sets is not due before a whole interval later.
C15_ProbeAtSessionStart ==
    [][/\ (user = null /\ user' # null) => now' = now
       /\ (user # null /\ cameraDeps.user = null) => (SessionStartStep /\ now' = now)
       /\ SessionStartStep
            => /\ Len(inflight') = Len(inflight) + 1
               /\ inflight'[Len(inflight')].url = TimestampedUrl(now)
               /\ lastIssue' = [at |-> now, by |-> "effect"]
               /\ \A t \in refreshInterval' : t.due = now + ProbeIntervalMs]_vars

\* C15 witness: a user has logged in after some time, the first probe of the
\* session is in flight and the first interval has not elapsed.
C15_Witness ==
    /\ user # null /\ EffectsFlushed /\ now > 0
    /\ lastIssue = [at |-> now, by |-> "effect"]
    /\ lastApplied = NoResult
    /\ inflight = <<[url |-> TimestampedUrl(now), lg |-> EmptyUrl,
                     deadline |-> now + ProbeTimeoutMs, by |-> "effect"]>>
    /\ refreshInterval = {[lg |-> EmptyUrl, due |-> now + ProbeIntervalMs]}

JoystickStartStep == ~isDragging /\ isDragging'
\* The offset is at least deadZoneRadius from the centre.
OutsideDeadZone(p) == p.x * p.x + p.y * p.y >= deadZoneRadius * deadZoneRadius
\* |offset.x| > |offset.y| * axisPriority
HorizontalWins(p) ==
    Abs(p.x) * axisPriorityThreshold.den > Abs(p.y) * axisPriorityThreshold.num

\* C17: every offset whose distance from the centre is less than deadZone
\* (20, for radius 70) is classified CENTER.
C17_DeadZoneIsCenter ==
    [][(/\ JoystickStartStep
        /\ joystickPos'.x * joystickPos'.x + joystickPos'.y * joystickPos'.y
              < deadZoneRadius * deadZoneRadius)
         => currentDirection' = "CENTER"]_vars

\* C17 witness: the pointer is down just inside the dead zone, off both axes.
C17_Witness ==
    /\ isDragging /\ JoystickListening /\ currentDirection = "CENTER"
    /\ joystickPos.x # 0 /\ joystickPos.y # 0
    /\ ~OutsideDeadZone(joystickPos)
    /\ joystickPos.x * joystickPos.x + joystickPos.y * joystickPos.y
          > (deadZoneRadius - 1) * (deadZoneRadius - 1)

\* C18 as stated: every offset with x > 0 and |x| > |y| * axisPriority is
\* classified RIGHTY, and every offset with x < 0 and |x| > |y| * axisPriority
\* is classified LEFTY.
C18_HorizontalWins ==
    [][(JoystickStartStep /\ HorizontalWins(joystickPos'))
         => /\ joystickPos'.x > 0 => currentDirection' = "RIGHTY"
            /\ joystickPos'.x < 0 => currentDirection' = "LEFTY"]_vars

\* C18 as amended: every offset outside the dead zone with x > 0 and
\* |x| > |y| * axisPriority is classified RIGHTY, and with x < 0 and
\* |x| > |y| * axisPriority LEFTY; inside the dead zone such an offset is
\* classified CENTER.
C18_HorizontalWinsOutsideDeadZone ==
    [][(JoystickStartStep /\ HorizontalWins(joystickPos'))
         => IF OutsideDeadZone(joystickPos')
               THEN /\ joystickPos'.x > 0 => currentDirection' = "RIGHTY"
                    /\ joystickPos'.x < 0 => currentDirection' = "LEFTY"
               ELSE currentDirection' = "CENTER"]_vars

\* C18 witness: the pointer is down outside the dead zone, to the left and
\* further down than left, and the command is LEFTY.
C18_Witness ==
    /\ isDragging /\ JoystickListening /\ currentDirection = "LEFTY"
    /\ joystickPos.x < 0 /\ joystickPos.y > -joystickPos.x
    /\ HorizontalWins(joystickPos) /\ OutsideDeadZone(joystickPos)

\* C19 as stated: outside the dead zone the command is horizontal (RIGHTY or
\* LEFTY) unless |y| is more than twice |x|, and vertical (DOWN or UP) only
\* when |y| is more than twice |x|; so an offset with |y| = 2 * |x| is
\* classified horizontally.
C19_TieIsHorizontal ==
    [][(JoystickStartStep /\ OutsideDeadZone(joystickPos'))
         => IF Abs(joystickPos'.y) > 2 * Abs(joystickPos'.x)
               THEN currentDirection' \in {"DOWN", "UP"}
               ELSE currentDirection' \in {"RIGHTY", "LEFTY"}]_vars

\* C19 as amended: outside the dead zone the command is horizontal exactly
\* when |y| is less than twice |x| and vertical exactly when |y| is at least
\* twice |x|; so an offset with |y| = 2 * |x| is classified vertically.
C19_TieIsVertical ==
    [][(JoystickStartStep /\ OutsideDeadZone(joystickPos'))
         => IF Abs(joystickPos'.y) >= 2 * Abs(joystickPos'.x)
               THEN currentDirection' \in {"DOWN", "UP"}
               ELSE currentDirection' \in {"RIGHTY", "LEFTY"}]_vars

\* C19 witness: the pointer is down outside the dead zone at an offset with
\* |y| = 2 * |x|, and the command is vertical.
C19_Witness ==
    /\ isDragging /\ JoystickListening /\ currentDirection \in {"DOWN", "UP"}
    /\ joystickPos.x # 0 /\ Abs(joystickPos.y) = 2 * Abs(joystickPos.x)
    /\ OutsideDeadZone(joystickPos)

\* C20: every offset outside the dead zone with |x| <= |y| * axisPriority is
\* classified DOWN when y > 0 and UP otherwise.
C20_VerticalOtherwise ==
    [][(/\ JoystickStartStep
        /\ OutsideDeadZone(joystickPos')
        /\ ~HorizontalWins(joystickPos'))
         => currentDirection' = IF joystickPos'.y > 0 THEN "DOWN" ELSE "UP"]_vars

\* C20 witness: the pointer is down outside the dead zone, above the centre
\* and off the vertical axis by less than half its height, and the command
\* is UP.
C20_Witness ==
    /\ isDragging /\ JoystickListening /\ currentDirection = "UP"
    /\ joystickPos.y < 0 /\ joystickPos.x # 0
    /\ ~HorizontalWins(joystickPos) /\ OutsideDeadZone(joystickPos)

JoystickMoveStep == isDragging /\ isDragging' /\ joystickPos' # joystickPos

\* C22: clamping does not change the classification: for a pointer offset
\* farther than joystickRadius from the centre, the command handleJoystickMove
\* sets (computed from the clamped offset) is getDominantDirection of the raw
\* offset.
C22_ClampKeepsCommand ==
    [][(JoystickMoveStep /\ joystickPos'.rad > 1)
         => currentDirection' = getDominantDirection(pointerOf(joystickPos').x,
                                                     pointerOf(joystickPos').y)]_vars

\* C22 witness: the knob is clamped for a pointer beyond the radius exactly
\* on the axis tie (|y| = 2 |x|), and the command is the vertical one.
C22_Witness ==
    /\ isDragging /\ "rad" \in DOMAIN joystickPos /\ joystickPos.rad > 1
    /\ pointerOf(joystickPos).x = 40 /\ pointerOf(joystickPos).y = -80
    /\ currentDirection = "UP"

\* C23: getDominantDirection is total and pure: for every offset (zero,
\* negative, beyond the radius) a pointer-down or a move sets exactly one of
\* CENTER, UP, DOWN, LEFTY, RIGHTY, and it is the command of that offset
\* whatever the rest of the state (session, stream, mode, speed, sprays,
\* previous command and position) is.
C23_TotalAndPure ==
    [][(JoystickStartStep \/ JoystickMoveStep)
         => /\ currentDirection' \in Directions \cup {"CENTER"}
            /\ currentDirection' = getDominantDirection(pointerOf(joystickPos').x,
                                                        pointerOf(joystickPos').y)]_vars

\* C23 witness: the pointer was dragged from elsewhere onto the exact centre
\* (offset (0,0)), and the command is CENTER.
C23_Witness ==
    /\ isDragging /\ joystickPos = [x |-> 0, y |-> 0, rad |-> 1]
    /\ currentDirection = "CENTER"

\* C24: with radius 70, dead zone 20 and axis priority 0.5, the offset (0,0)
\* is classified CENTER, (50,0) RIGHTY, (0,-50) UP and (30,40) RIGHTY.
C24_Examples ==
    [][JoystickStartStep
         => /\ joystickRadius = 70 /\ deadZoneRadius = 20
            /\ axisPriorityThreshold.num * 2 = axisPriorityThreshold.den
            /\ joystickPos' = [x |-> 0, y |-> 0] => currentDirection' = "CENTER"
            /\ joystickPos' = [x |-> 50, y |-> 0] => currentDirection' = "RIGHTY"
            /\ joystickPos' = [x |-> 0, y |-> -50] => currentDirection' = "UP"
            /\ joystickPos' = [x |-> 30, y |-> 40] => currentDirection' = "RIGHTY"]_vars

\* C24 witness: the pointer went down at (30,40) and the command is RIGHTY.
C24_Witness ==
    /\ isDragging /\ joystickPos = [x |-> 30, y |-> 40]
    /\ currentDirection = "RIGHTY"

\* An update of the command fields is issued in this step.
CommandWriteStep ==
    /\ Len(writes') = Len(writes) + 1
    /\ IsCommandUpdate(writes'[Len(writes')])

\* C25: in every update the publisher writes, at most one of up, down, left,
\* right is "1", namely the one matching the current command, and all four
\* are "0" exactly when the command is CENTER.
C25_OneDirectionFlag ==
    [][CommandWriteStep
         => LET w == writes'[Len(writes')]
            IN /\ Cardinality({f \in {"up", "down", "left", "right"} : w[f] = "1"}) <= 1
               /\ w.up = "1" <=> currentDirection' = "UP"
               /\ w.down = "1" <=> currentDirection' = "DOWN"
               /\ w.left = "1" <=> currentDirection' = "LEFTY"
               /\ w.right = "1" <=> currentDirection' = "RIGHTY"
               /\ (w.up = "0" /\ w.down = "0" /\ w.left = "0" /\ w.right = "0")
                    <=> currentDirection' = "CENTER"]_vars

\* C25 witness: the update for LEFTY is in flight, its left flag alone "1",
\* while the left spray is on.
C25_Witness ==
    /\ PublishFlushed /\ currentDirection = "LEFTY" /\ sprayLeftActive
    /\ writes # <<>>
    /\ IsCommandUpdate(writes[Len(writes)])
    /\ writes[Len(writes)].left = "1" /\ writes[Len(writes)].right = "0"

\* C26: in every update written, spray_left is "1" exactly when the left
\* spray is active and spray_right is "1" exactly when the right spray is
\* active (so speed has no influence on either flag).
C26_SprayFlags ==
    [][CommandWriteStep
         => LET w == writes'[Len(writes')]
            IN /\ w.spray_left = "1" <=> sprayLeftActive'
               /\ w.spray_right = "1" <=> sprayRightActive']_vars

\* A rejected update has been handled in this step (its error logged).
WriteFailedStep ==
    /\ lastSettled' # <<>> /\ lastSettled'[1].error
    /\ lastSettled' # lastSettled \/ Len(writes') < Len(writes)

C30_WritesOnlyLoggedIn ==
    [][CommandWriteStep => (user # null /\ user' # null)]_vars

\* C30 witness: the user logged out with UP held; the publish effect has run
\* with user null and written nothing, the last update is the one for UP.
C30_Witness ==
    /\ user = null /\ ~loadingAuth
    /\ PublishFlushed /\ effectDeps.publish.user = null
    /\ currentDirection = "UP"
    /\ writes = <<>>
    /\ lastWrite # <<>> /\ IsCommandUpdate(lastWrite[1]) /\ lastWrite[1].up = "1"

\* The root listener has been handed a record in this step.
RecordDeliveredStep == lastSnapshot' # <<>> /\ lastSnapshot' # lastSnapshot

\* What the page shows for each field of the record.
Displayed ==
    [accel_x |-> accelerometerData.x, accel_y |-> accelerometerData.y,
     accel_z |-> accelerometerData.z, distance_cm |-> ultrasonicDistance,
     motion |-> motionStatus, latitude |-> gpsLocation.latitude,
     longitude |-> gpsLocation.longitude, geolat |-> gpsLocation.geolat,
     geolong |-> gpsLocation.geolong]

MarkerEffectStep == ~MarkerFlushed /\ MarkerFlushed'

IsFinite(num) == num.kind = "number"

\* C29: the marker is re-centred only when both coordinates of the selected
\* GPS source parse as finite numbers; a run of the marker effect with a
\* coordinate that is missing ('N/A'), NaN or infinite leaves the marker and
\* the centre of the map unchanged.
C29_MarkerOnlyFinite ==
    [][MarkerEffectStep
         => \/ IsFinite(selectedLatLng.lat) /\ IsFinite(selectedLatLng.lng)
            \/ googleMarker' = googleMarker]_vars

\* C31: whenever no user is logged in (and the effects of the last render
\* have run), the command update written last has up, down, left, right,
\* spray_left and spray_right all "0".
C31_RestWhenLoggedOut ==
    (/\ user = null /\ PublishFlushed
     /\ lastWrite # <<>> /\ IsCommandUpdate(lastWrite[1]))
        => \A f \in {"up", "down", "left", "right", "spray_left", "spray_right"} :
              lastWrite[1][f] = "0"

\* C32: a release handled during a session returns the control to rest:
\* handleDirectionRelease sets currentDirection to CENTER; handleJoystickEnd
\* sets currentDirection to CENTER, the knob to (0,0) and isDragging to
\* false; a release that changed the command makes an update due, and the
\* update written next (before any other handler runs) has up, down, left
\* and right all "0".
C32_ReleaseReturnsToRest ==
    [][/\ (user # null /\ handleDirectionRelease) => currentDirection' = "CENTER"
       /\ (user # null /\ handleJoystickEnd)
          => /\ currentDirection' = "CENTER"
             /\ joystickPos' = [x |-> 0, y |-> 0]
             /\ ~isDragging'
       /\ (/\ user # null /\ currentDirection # "CENTER"
           /\ handleDirectionRelease \/ handleJoystickEnd)
          => ~PublishFlushed'
       /\ (~PublishFlushed /\ user # null /\ currentDirection = "CENTER")
          => /\ controlVars' = controlVars /\ user' = user
             /\ PublishFlushed'
                  => /\ Len(writes') = Len(writes) + 1
                     /\ \A f \in {"up", "down", "left", "right"} :
                           writes'[Len(writes')][f] = "0"]_vars

\* C32 witness: the UP button was released during a session (in ARROWS mode
\* with no drag going on nothing else takes the command from UP to CENTER);
\* the update for CENTER is due.
C32_Witness ==
    /\ user # null /\ effectDeps.publish.user = user
    /\ mode = "ARROWS" /\ ~isDragging
    /\ currentDirection = "CENTER" /\ effectDeps.publish.dir = "UP"
    /\ ~PublishFlushed

\* C33: the knob never leaves the joystick circle: the distance of
\* joystickPos from (0,0) is at most joystickRadius (for a position held as
\* x / sqrt(rad), y / sqrt(rad): x^2 + y^2 <= joystickRadius^2 * rad).
C33_KnobWithinRadius ==
    LET rad == IF "rad" \in DOMAIN joystickPos THEN joystickPos.rad ELSE 1
    IN joystickPos.x * joystickPos.x + joystickPos.y * joystickPos.y
         <= joystickRadius * joystickRadius * rad

\* C34: toggleControlMode during a session switches the mode between ARROWS
\* and JOYSTICK, sets currentDirection to CENTER and both spray flags to
\* false, and leaves speed and the stream state unchanged; the mode a second
\* toggle would give is the mode before the first.
C34_ToggleMode ==
    [][(user # null /\ toggleControlMode)
         => /\ mode \in {"ARROWS", "JOYSTICK"} /\ mode' \in {"ARROWS", "JOYSTICK"}
            /\ mode' # mode
            /\ currentDirection' = "CENTER"
            /\ ~sprayLeftActive' /\ ~sprayRightActive'
            /\ speed' = speed
            /\ StreamState' = StreamState
            /\ \A next \in {"ARROWS", "JOYSTICK"} : (next # mode') => next = mode]_vars

\* C34 witness: the mode was switched to JOYSTICK at speed 2 with a stream
\* that had connected and then failed; command and sprays are at rest.
C34_Witness ==
    /\ user # null /\ mode = "JOYSTICK"
    /\ speed = 2 /\ Truthy(lastGoodStreamUrl) /\ videoStreamError
    /\ currentDirection = "CENTER" /\ ~sprayLeftActive /\ ~sprayRightActive

\* C35: the local speed is one of 1, 2, 3 in every reachable state, after
\* any sequence of toggleSpeed presses and of values delivered by the
\* listener on the remote 'speed' key.
C35_SpeedInRange == speed \in {1, 2, 3}

\* C36: while no user is logged in every control operation is a no-op:
\* direction press and release, spray press and release, toggleSpeed,
\* toggleControlMode, joystick start, move and end and manual reconnect
\* leave currentDirection, the spray flags, speed, mode, the joystick state
\* and the stream state unchanged and issue no remote write.
C36_LoggedOutNoOp ==
    [][(user = null /\ ControlCall)
         => /\ controlVars' = controlVars
            /\ joystickVars' = joystickVars
            /\ StreamState' = StreamState
            /\ writes' = writes /\ lastWrite' = lastWrite]_vars

\* C36 witness: logged out after a session in which UP and the left spray
\* were held; every handler can be called here, the controls are still held.
C36_Witness ==
    /\ user = null /\ ~loadingAuth /\ EffectsFlushed /\ PublisherReady
    /\ currentDirection = "UP" /\ sprayLeftActive
    /\ ENABLED handleDirectionReleaseCall
    /\ ENABLED handleSprayReleaseCall("left")

\* A step of handleLogin that ends the attempt.
LoginSettles == handleLogin_Fulfilled \/ \E code \in ErrorCodes : handleLogin_Rejected(code)

\* C37: a login attempt always ends with loggingIn false.  handleLogin
\* clears loginError and sets loggingIn true at its start; when the sign-in
\* has succeeded or failed loggingIn is false; on failure loginError is a
\* non-empty message and user stays null; on success loginError stays empty.
C37_LoginEnds ==
    [][/\ handleLogin => loginError' = "" /\ loggingIn'
       /\ LoginSettles => ~loggingIn'
       /\ (\E code \in ErrorCodes : handleLogin_Rejected(code))
            => loginError' # "" /\ user = null /\ user' = null
       /\ handleLogin_Fulfilled => loginError = "" /\ loginError' = ""
       /\ (loggingIn /\ ~loggingIn') => LoginSettles]_vars

\* C37 witness: after a session in which UP was pressed and a logout, a
\* login attempt was rejected with auth/invalid-email: the login page shows
\* the message, loggingIn is false again and no user is logged in.
C37_Witness ==
    /\ user = null /\ ~loadingAuth /\ authCurrentUser = null
    /\ ~loggingIn /\ signIn = "none"
    /\ loginError = "Please enter a valid email address."
    /\ currentDirection = "UP"

\* C38: with radius 70, dead zone 20 and axis priority 0.5 the older
\* three-branch classifier of src/src/App.js returns for every offset the
\* command the current two-branch classifier returns, and its final
\* return "CENTER" is not reached for an offset outside the dead zone.
C38_OlderClassifierEquivalent ==
    classifyResult # <<>>
        => /\ classifyResult[1].older = classifyResult[1].current
           /\ classifyResult[1].taken = "final"
                => classifyArgs[1].x * classifyArgs[1].x + classifyArgs[1].y * classifyArgs[1].y
                     < deadZoneRadius * deadZoneRadius * classifyArgs[1].rad

\* C38 witness: the pointer offset (45, -90), brought back to the radius,
\* lies on the tie |x| = 0.5 |y| outside the dead zone: the first test of
\* both classifiers fails, the older one answers UP by its else-if test.
C38_Witness ==
    /\ classifyResult # <<>>
    /\ classifyArgs[1] = clampToRadius(45, -90)
    /\ classifyResult[1].taken = "vertical"
    /\ classifyResult[1].older = "UP" /\ classifyResult[1].current = "UP"
====
